---- MODULE Spec2Model ----
(***************************************************************************)
(* A model of the tree-walking evaluator of crafting_rust (a Lox            *)
(* interpreter): src/src/interpreter.rs, src/src/function.rs,               *)
(* src/src/environment.rs and the driver src/src/main.rs.                   *)
(*                                                                          *)
(* The Rust call stack of the recursive visitor is the variable `stack`:    *)
(* a handler that calls evaluate/execute pushes a frame that remembers      *)
(* where it resumes, and the register `ctrl` holds what is being executed   *)
(* or what the last call returned (a Value, Ok(()), or Err(Return)).        *)
(* Rc<RefCell<Environment>> handles are indices into the arena `envs`.      *)
(***************************************************************************)
EXTENDS Integers, Sequences, FiniteSets, TLC

(***************************************************************************)
(* Bounds of the model.                                                     *)
(***************************************************************************)
\* largest number of environments an execution may allocate
MaxEnvs == 12
\* deepest Rust call stack (frames) an execution may build
MaxDepth == 24
\* the wall-clock readings the native `clock` may return
MaxClock == 2

(***************************************************************************)
(* Runtime values: interpreter.rs, enum Value.                              *)
(***************************************************************************)
VNone == [t |-> "None"]
VBoolean(b) == [t |-> "Boolean", b |-> b]
VNumber(n) == [t |-> "Number", n |-> n]
VString(s) == [t |-> "String", s |-> s]
VCallable(f) == [t |-> "Callable", f |-> f]

(***************************************************************************)
(* Tokens and literals (token.rs is not part of the sources; the fields    *)
(* are those of Token::new as the scanner calls it).                        *)
(***************************************************************************)
LNone == [l |-> "None"]
LBoolean(b) == [l |-> "Boolean", b |-> b]
LNumber(n) == [l |-> "Number", n |-> n]
LString(s) == [l |-> "String", s |-> s]

Token(ty, lexeme, literal, line) ==
    [token_type |-> ty, lexeme |-> lexeme, literal |-> literal, line |-> line]
Ident(name) == Token("Identifier", name, LNone, 1)
Op(ty, lexeme) == Token(ty, lexeme, LNone, 1)
Paren(line) == Token("RightParen", ")", LNone, line)

(***************************************************************************)
(* AST: expression.rs enum Expr, statement.rs enum Stmt.                    *)
(***************************************************************************)
Expr_Literal(l) == [k |-> "Literal", l |-> l]
Expr_Grouping(e) == [k |-> "Grouping", e |-> e]
Expr_Unary(op, r) == [k |-> "Unary", op |-> op, r |-> r]
Expr_Binary(l, op, r) == [k |-> "Binary", l |-> l, op |-> op, r |-> r]
Expr_Logical(l, op, r) == [k |-> "Logical", l |-> l, op |-> op, r |-> r]
Expr_Variable(name) == [k |-> "Variable", name |-> name]
Expr_Assign(name, value) == [k |-> "Assign", name |-> name, value |-> value]
Expr_Call(callee, paren, args) == [k |-> "Call", callee |-> callee, paren |-> paren, args |-> args]

\* Parser::call and Parser::assignment build these two through Expr::get
\* and Expr::set; enum Expr has no such variant and Expr::accept no arm
Expr_Get(object, name) == [k |-> "Get", object |-> object, name |-> name]
Expr_Set(object, name, value) ==
    [k |-> "Set", object |-> object, name |-> name, value |-> value]

\* Option<T>: None is the record [some |-> FALSE]
NoneOpt == [some |-> FALSE]
Some(x) == [some |-> TRUE, x |-> x]

Stmt_Expression(e) == [k |-> "Expression", e |-> e]
Stmt_Print(e) == [k |-> "Print", e |-> e]
Stmt_Var(name, init) == [k |-> "Var", name |-> name, init |-> init]
Stmt_Block(stmts) == [k |-> "Block", stmts |-> stmts]
Stmt_If(c, th, el) == [k |-> "If", c |-> c, th |-> th, el |-> el]
Stmt_While(c, body) == [k |-> "While", c |-> c, body |-> body]
Stmt_Function(name, params, body) == [k |-> "Function", name |-> name, params |-> params, body |-> body]
Stmt_Return(keyword, value) == [k |-> "Return", keyword |-> keyword, value |-> value]
Stmt_Class(name, methods) == [k |-> "Class", name |-> name, methods |-> methods]

(***************************************************************************)
(* Environments: environment.rs.  An Environment value is a record          *)
(* [enclosing, values]; enclosing = 0 is Option::None, otherwise the index  *)
(* of the shared environment in the arena.                                  *)
(***************************************************************************)
EmptyValues == [n \in {} |-> VNone]

Environment_new == [enclosing |-> 0, values |-> EmptyValues]

\* a new environment whose enclosing one is the handle after the given one
Environment_new_from_next(enclosing) ==
    [enclosing |-> enclosing + 1, values |-> EmptyValues]

Environment_new_from(enclosing) == [enclosing |-> enclosing, values |-> EmptyValues]

\* an insert that keeps an old binding of the same key
Environment_define_keep(env, key, value) ==
    [env EXCEPT !.values = env.values @@ (key :> value)]

\* HashMap::insert: the new binding replaces an old one of the same key
Environment_define(env, key, value) ==
    [env EXCEPT !.values = (key :> value) @@ env.values]

RECURSIVE Environment_get(_, _, _)
Environment_get(es, env, key) ==
    IF key.lexeme \in DOMAIN env.values
    THEN [ok |-> TRUE, value |-> env.values[key.lexeme]]
    ELSE IF env.enclosing /= 0
         THEN Environment_get(es, es[env.enclosing], key)
         ELSE [ok |-> FALSE, err |-> "Undefined variable '" \o key.lexeme \o "'."]

\* an assign that writes the local table whatever it holds
Environment_assign_local(es, h, name, value) ==
    [ok |-> TRUE,
     envs |-> [es EXCEPT ![h].values = (name.lexeme :> value) @@ es[h].values]]

\* assign through the handle h: the result is the arena after the call
RECURSIVE Environment_assign(_, _, _, _)
Environment_assign(es, h, name, value) ==
    IF name.lexeme \in DOMAIN es[h].values
    THEN [ok |-> TRUE,
          envs |-> [es EXCEPT ![h].values = (name.lexeme :> value) @@ es[h].values]]
    ELSE IF es[h].enclosing /= 0
         THEN Environment_assign(es, es[h].enclosing, name, value)
         ELSE [ok |-> FALSE, err |-> "Undefined variable " \o name.lexeme \o "."]

(***************************************************************************)
(* Functions: function.rs.                                                  *)
(***************************************************************************)
Native(arity, body) == [kind |-> "Native", arity |-> arity, body |-> body]
User(body, params, name, enclosing) ==
    [kind |-> "User", body |-> body, params |-> params, name |-> name,
     enclosing |-> enclosing]

Function_arity(f) ==
    IF f.kind = "Native" THEN f.arity ELSE Len(f.params)

(***************************************************************************)
(* Pure helpers of interpreter.rs.                                          *)
(***************************************************************************)
is_truthy(object) ==
    CASE object.t = "None" -> FALSE
      [] object.t = "Boolean" -> object.b
      [] OTHER -> TRUE

\* an equality that looks at the variants only
is_equal_variant_only(left, right) == left.t = right.t

is_equal(left, right) ==
    CASE left.t = "None" /\ right.t = "None" -> TRUE
      [] left.t = "Boolean" /\ right.t = "Boolean" -> left.b = right.b
      [] left.t = "Number" /\ right.t = "Number" -> left.n = right.n
      [] left.t = "String" /\ right.t = "String" -> left.s = right.s
      [] OTHER -> FALSE

\* impl Display for Value
Display(v) ==
    CASE v.t = "String" -> v.s
      [] v.t = "Number" -> ToString(v.n)
      [] v.t = "Boolean" -> IF v.b THEN "true" ELSE "false"
      [] v.t = "None" -> "none"
      [] v.t = "Callable" -> "function"

\* visit_literal_expr, as a function of the literal
LiteralValue(literal) ==
    CASE literal.l = "None" -> VNone
      [] literal.l = "Boolean" -> VBoolean(literal.b)
      [] literal.l = "Number" -> VNumber(literal.n)
      [] literal.l = "String" -> VString(literal.s)

\* main.rs: the line `report` prints; error_at_token chooses the `where`
ReportLine(line, where1, message) ==
    "[line " \o ToString(line) \o "] Error" \o where1 \o ": " \o message

ErrorAtTokenLine(token, message) ==
    IF token.token_type = "Eof"
    THEN ReportLine(token.line, " at end", message)
    ELSE ReportLine(token.line, " at '" \o token.lexeme \o "'", message)


\* visit_unary_expr after its operand: a Value, or the panic of line 156
UnaryResult(op, right) ==
    CASE op.token_type = "Bang" -> [ok |-> TRUE, value |-> VBoolean(~is_truthy(right))]
      [] op.token_type = "Minus" ->
            IF right.t = "Number"
            THEN [ok |-> TRUE, value |-> VNumber(0 - right.n)]
            ELSE [ok |-> FALSE, err |-> "operand must be a number"]
      [] OTHER -> [ok |-> TRUE, value |-> VNone]

\* visit_binary_expr after both operands: a Value, or one of its panics.
\* Numbers are the integers; a quotient that is not one (a fraction, an
\* infinity, NaN) is kept as the unevaluated pair q.
BinaryResult(op, left, right) ==
    LET nums == left.t = "Number" /\ right.t = "Number"
        bad == [ok |-> FALSE, err |-> "operands must be numbers"]
        val(v) == [ok |-> TRUE, value |-> v]
    IN CASE op.token_type = "Minus" -> IF nums THEN val(VNumber(left.n - right.n)) ELSE bad
         [] op.token_type = "Slash" ->
               IF ~nums THEN bad
               ELSE IF right.n /= 0 /\ left.n % right.n = 0
               THEN val(VNumber(left.n \div right.n))
               ELSE val([t |-> "Number", q |-> <<left.n, right.n>>])
         [] op.token_type = "Star" -> IF nums THEN val(VNumber(left.n * right.n)) ELSE bad
         [] op.token_type = "Plus" ->
               IF left.t = "String" /\ right.t = "String"
               THEN val(VString(left.s \o right.s))
               ELSE IF nums THEN val(VNumber(left.n + right.n))
               ELSE [ok |-> FALSE,
                     err |-> "operands must both be strings or both be numbers"]
         [] op.token_type = "Greater" -> IF nums THEN val(VBoolean(left.n > right.n)) ELSE bad
         [] op.token_type = "GreaterEqual" -> IF nums THEN val(VBoolean(left.n >= right.n)) ELSE bad
         [] op.token_type = "Less" -> IF nums THEN val(VBoolean(left.n < right.n)) ELSE bad
         [] op.token_type = "LessEqual" -> IF nums THEN val(VBoolean(left.n <= right.n)) ELSE bad
         [] op.token_type = "BangEqual" -> val(VBoolean(~is_equal(left, right)))
         [] op.token_type = "EqualEqual" -> val(VBoolean(is_equal(left, right)))
         [] OTHER -> val(VNone)

(***************************************************************************)
(* State.                                                                   *)
(***************************************************************************)
VARIABLES
    program,      \* the statements handed to interpret (never changes)
    envs,         \* arena of the shared environments (Rc<RefCell<Environment>>)
    environment,  \* Interpreter.environment: handle of the current environment
    globals,      \* Interpreter.globals: an Environment held by value
    stack,        \* the Rust call stack: frames of the handlers that wait
    ctrl,         \* what runs now, or what the last call returned
    output,       \* the lines written to stdout
    HAD_ERROR     \* main.rs: static mut HAD_ERROR

vars == <<program, envs, environment, globals, stack, ctrl, output, HAD_ERROR>>

Top == stack[Len(stack)]
Pop == SubSeq(stack, 1, Len(stack) - 1)
Push(frame) == Append(stack, frame)
ReplaceTop(frame) == Append(Pop, frame)
CanPush == Len(stack) < MaxDepth
CanAlloc == Len(envs) < MaxEnvs

Exec(stmt) == [m |-> "exec", stmt |-> stmt]
Eval(expr) == [m |-> "eval", expr |-> expr]
Val(v) == [m |-> "val", v |-> v]
OkUnit == [m |-> "ok"]
ErrReturn(v) == [m |-> "ret", v |-> v]
Panic(msg) == [m |-> "panic", msg |-> msg]
Done == [m |-> "done"]

\* Stmt::accept / Expr::accept: the handler a node is dispatched to
StmtIs(kind) == ctrl.m = "exec" /\ ctrl.stmt.k = kind
ExprIs(kind) == ctrl.m = "eval" /\ ctrl.expr.k = kind
\* the handler whose frame is on top resumes with the result in ctrl
Resumes(f, ms) == stack /= <<>> /\ Top.f = f /\ ctrl.m \in ms


(***************************************************************************)
(* Interpreter::new (interpreter.rs 60-79): `clock` goes into `globals`,    *)
(* and `environment` is a fresh Environment::new() of its own.              *)
(***************************************************************************)
Interpreter_new_globals ==
    Environment_define(Environment_new, "clock", VCallable(Native(0, "clock")))

Interpreter_new_environment == Environment_new

(***************************************************************************)
(* The evaluator: one action per handler.                                   *)
(***************************************************************************)
\* Interpreter::interpret: execute each statement, dropping its result
\* an interpret that ends the program when a statement returns
interpret_stop_on_return ==
    /\ \/ /\ ctrl.m = "interpret"
          /\ IF ctrl.statements = <<>>
             THEN ctrl' = Done /\ stack' = stack
             ELSE /\ ctrl' = Exec(Head(ctrl.statements))
                  /\ stack' = Push([f |-> "interpret", rest |-> Tail(ctrl.statements)])
       \/ /\ Resumes("interpret", {"ok", "ret"})
          /\ IF Top.rest = <<>> \/ ctrl.m = "ret"
             THEN ctrl' = Done /\ stack' = Pop
             ELSE /\ ctrl' = Exec(Head(Top.rest))
                  /\ stack' = ReplaceTop([f |-> "interpret", rest |-> Tail(Top.rest)])
    /\ UNCHANGED <<program, envs, environment, globals, output, HAD_ERROR>>

interpret ==
    /\ \/ /\ ctrl.m = "interpret"
          /\ IF ctrl.statements = <<>>
             THEN ctrl' = Done /\ stack' = stack
             ELSE /\ ctrl' = Exec(Head(ctrl.statements))
                  /\ stack' = Push([f |-> "interpret", rest |-> Tail(ctrl.statements)])
       \/ /\ Resumes("interpret", {"ok", "ret"})
          /\ IF Top.rest = <<>>
             THEN ctrl' = Done /\ stack' = Pop
             ELSE /\ ctrl' = Exec(Head(Top.rest))
                  /\ stack' = ReplaceTop([f |-> "interpret", rest |-> Tail(Top.rest)])
    /\ UNCHANGED <<program, envs, environment, globals, output, HAD_ERROR>>

\* execute_block with the restore skipped when a `return` unwinds
execute_block_leak ==
    /\ \/ /\ ctrl.m = "block"
          /\ IF ctrl.statements = <<>>
             THEN ctrl' = OkUnit /\ stack' = stack /\ environment' = environment
             ELSE /\ CanPush
                  /\ environment' = ctrl.environment
                  /\ ctrl' = Exec(Head(ctrl.statements))
                  /\ stack' = Push([f |-> "execute_block",
                                    previous |-> environment,
                                    environment |-> ctrl.environment,
                                    rest |-> Tail(ctrl.statements)])
       \/ /\ Resumes("execute_block", {"ok"})
          /\ IF Top.rest = <<>>
             THEN ctrl' = OkUnit /\ stack' = Pop /\ environment' = Top.previous
             ELSE /\ ctrl' = Exec(Head(Top.rest))
                  /\ stack' = ReplaceTop([Top EXCEPT !.rest = Tail(Top.rest)])
                  /\ environment' = environment
       \/ /\ Resumes("execute_block", {"ret"})
          /\ ctrl' = ctrl /\ stack' = Pop /\ environment' = environment
    /\ UNCHANGED <<program, envs, globals, output, HAD_ERROR>>

\* Interpreter::execute_block
execute_block ==
    /\ \/ /\ ctrl.m = "block"
          /\ IF ctrl.statements = <<>>
             THEN ctrl' = OkUnit /\ stack' = stack /\ environment' = environment
             ELSE /\ CanPush
                  /\ environment' = ctrl.environment
                  /\ ctrl' = Exec(Head(ctrl.statements))
                  /\ stack' = Push([f |-> "execute_block",
                                    previous |-> environment,
                                    environment |-> ctrl.environment,
                                    rest |-> Tail(ctrl.statements)])
       \/ /\ Resumes("execute_block", {"ok"})
          /\ IF Top.rest = <<>>
             THEN ctrl' = OkUnit /\ stack' = Pop /\ environment' = Top.previous
             ELSE /\ ctrl' = Exec(Head(Top.rest))
                  /\ stack' = ReplaceTop([Top EXCEPT !.rest = Tail(Top.rest)])
                  /\ environment' = environment
       \/ /\ Resumes("execute_block", {"ret"})
          /\ ctrl' = ctrl /\ stack' = Pop /\ environment' = Top.previous
    /\ UNCHANGED <<program, envs, globals, output, HAD_ERROR>>

visit_literal_expr ==
    /\ ExprIs("Literal")
    /\ ctrl' = Val(LiteralValue(ctrl.expr.l))
    /\ UNCHANGED <<program, envs, environment, globals, stack, output, HAD_ERROR>>

\* visit_logical_expr yielding the truthiness of the left operand
visit_logical_expr_coerce ==
    /\ \/ /\ ExprIs("Logical") /\ CanPush
          /\ ctrl' = Eval(ctrl.expr.l)
          /\ stack' = Push([f |-> "logical", op |-> ctrl.expr.op, r |-> ctrl.expr.r])
       \/ /\ Resumes("logical", {"val"})
          /\ stack' = Pop
          /\ LET left == ctrl.v IN
             IF Top.op.token_type = "Or"
             THEN IF is_truthy(left) THEN ctrl' = Val(VBoolean(TRUE)) ELSE ctrl' = Eval(Top.r)
             ELSE IF ~is_truthy(left) THEN ctrl' = Val(VBoolean(FALSE)) ELSE ctrl' = Eval(Top.r)
    /\ UNCHANGED <<program, envs, environment, globals, output, HAD_ERROR>>

visit_logical_expr ==
    /\ \/ /\ ExprIs("Logical") /\ CanPush
          /\ ctrl' = Eval(ctrl.expr.l)
          /\ stack' = Push([f |-> "logical", op |-> ctrl.expr.op, r |-> ctrl.expr.r])
       \/ /\ Resumes("logical", {"val"})
          /\ stack' = Pop
          /\ LET left == ctrl.v IN
             IF Top.op.token_type = "Or"
             THEN IF is_truthy(left) THEN ctrl' = Val(left) ELSE ctrl' = Eval(Top.r)
             ELSE IF ~is_truthy(left) THEN ctrl' = Val(left) ELSE ctrl' = Eval(Top.r)
    /\ UNCHANGED <<program, envs, environment, globals, output, HAD_ERROR>>

visit_grouping_expr ==
    /\ ExprIs("Grouping")
    /\ ctrl' = Eval(ctrl.expr.e)
    /\ UNCHANGED <<program, envs, environment, globals, stack, output, HAD_ERROR>>

visit_unary_expr ==
    /\ \/ /\ ExprIs("Unary") /\ CanPush
          /\ ctrl' = Eval(ctrl.expr.r)
          /\ stack' = Push([f |-> "unary", op |-> ctrl.expr.op])
       \/ /\ Resumes("unary", {"val"})
          /\ LET res == UnaryResult(Top.op, ctrl.v) IN
             IF res.ok THEN ctrl' = Val(res.value) /\ stack' = Pop
             ELSE ctrl' = Panic(res.err) /\ stack' = stack
    /\ UNCHANGED <<program, envs, environment, globals, output, HAD_ERROR>>

visit_binary_expr ==
    /\ \/ /\ ExprIs("Binary") /\ CanPush
          /\ ctrl' = Eval(ctrl.expr.l)
          /\ stack' = Push([f |-> "binary_left", op |-> ctrl.expr.op, r |-> ctrl.expr.r])
       \/ /\ Resumes("binary_left", {"val"})
          /\ ctrl' = Eval(Top.r)
          /\ stack' = ReplaceTop([f |-> "binary_right", op |-> Top.op, left |-> ctrl.v])
       \/ /\ Resumes("binary_right", {"val"})
          /\ LET res == BinaryResult(Top.op, Top.left, ctrl.v) IN
             IF res.ok THEN ctrl' = Val(res.value) /\ stack' = Pop
             ELSE ctrl' = Panic(res.err) /\ stack' = stack
    /\ UNCHANGED <<program, envs, environment, globals, output, HAD_ERROR>>

\* the chain the lookup starts from: self.environment
visit_var_expr ==
    /\ ExprIs("Variable")
    /\ LET res == Environment_get(envs, envs[environment], ctrl.expr.name) IN
       IF res.ok THEN ctrl' = Val(res.value) ELSE ctrl' = Panic(res.err)
    /\ UNCHANGED <<program, envs, environment, globals, stack, output, HAD_ERROR>>

visit_assign_expr ==
    /\ \/ /\ ExprIs("Assign") /\ CanPush
          /\ ctrl' = Eval(ctrl.expr.value)
          /\ stack' = Push([f |-> "assign", name |-> ctrl.expr.name])
          /\ envs' = envs
       \/ /\ Resumes("assign", {"val"})
          /\ LET res == Environment_assign(envs, environment, Top.name, ctrl.v) IN
             IF res.ok
             THEN envs' = res.envs /\ ctrl' = ctrl /\ stack' = Pop
             ELSE envs' = envs /\ ctrl' = Panic(res.err) /\ stack' = stack
    /\ UNCHANGED <<program, environment, globals, output, HAD_ERROR>>


\* visit_call_expr lines 253-280: the match on the callee, once the callee
\* and all the arguments are values.  The frame of the handler is on top.
CallMatch(callee, paren, arguments) ==
    IF callee.t = "Callable"
    THEN /\ IF Len(arguments) /= Function_arity(callee.f)
            THEN /\ output' = Append(output, ErrorAtTokenLine(paren,
                        "Expected " \o ToString(Function_arity(callee.f))
                        \o " argument but got " \o ToString(Len(arguments)) \o "."))
                 /\ HAD_ERROR' = TRUE
            ELSE UNCHANGED <<output, HAD_ERROR>>
         /\ ctrl' = [m |-> "call", function |-> callee.f, arguments |-> arguments]
         /\ stack' = ReplaceTop([f |-> "call_invoke"])
    ELSE /\ output' = Append(output,
                ErrorAtTokenLine(paren, "Can only call functions and classes."))
         /\ HAD_ERROR' = TRUE
         /\ ctrl' = Val(VNone)
         /\ stack' = Pop

\* a call that looks at the callee before it evaluates the arguments
visit_call_expr_check_first ==
    /\ \/ /\ ExprIs("Call") /\ CanPush
          /\ ctrl' = Eval(ctrl.expr.callee)
          /\ stack' = Push([f |-> "call_callee", paren |-> ctrl.expr.paren,
                            args |-> ctrl.expr.args])
          /\ UNCHANGED <<output, HAD_ERROR>>
       \/ /\ Resumes("call_callee", {"val"})
          /\ IF Top.args = <<>> \/ ctrl.v.t /= "Callable"
             THEN CallMatch(ctrl.v, Top.paren, <<>>)
             ELSE /\ ctrl' = Eval(Head(Top.args))
                  /\ stack' = ReplaceTop([f |-> "call_args", callee |-> ctrl.v,
                                          paren |-> Top.paren, arguments |-> <<>>,
                                          rest |-> Tail(Top.args)])
                  /\ UNCHANGED <<output, HAD_ERROR>>
       \/ /\ Resumes("call_args", {"val"})
          /\ LET arguments == Append(Top.arguments, ctrl.v) IN
             IF Top.rest = <<>>
             THEN CallMatch(Top.callee, Top.paren, arguments)
             ELSE /\ ctrl' = Eval(Head(Top.rest))
                  /\ stack' = ReplaceTop([Top EXCEPT !.arguments = arguments,
                                                     !.rest = Tail(Top.rest)])
                  /\ UNCHANGED <<output, HAD_ERROR>>
       \/ /\ Resumes("call_invoke", {"val"})
          /\ ctrl' = ctrl /\ stack' = Pop
          /\ UNCHANGED <<output, HAD_ERROR>>
    /\ UNCHANGED <<program, envs, environment, globals>>

visit_call_expr ==
    /\ \/ /\ ExprIs("Call") /\ CanPush
          /\ ctrl' = Eval(ctrl.expr.callee)
          /\ stack' = Push([f |-> "call_callee", paren |-> ctrl.expr.paren,
                            args |-> ctrl.expr.args])
          /\ UNCHANGED <<output, HAD_ERROR>>
       \/ /\ Resumes("call_callee", {"val"})
          /\ IF Top.args = <<>>
             THEN CallMatch(ctrl.v, Top.paren, <<>>)
             ELSE /\ ctrl' = Eval(Head(Top.args))
                  /\ stack' = ReplaceTop([f |-> "call_args", callee |-> ctrl.v,
                                          paren |-> Top.paren, arguments |-> <<>>,
                                          rest |-> Tail(Top.args)])
                  /\ UNCHANGED <<output, HAD_ERROR>>
       \/ /\ Resumes("call_args", {"val"})
          /\ LET arguments == Append(Top.arguments, ctrl.v) IN
             IF Top.rest = <<>>
             THEN CallMatch(Top.callee, Top.paren, arguments)
             ELSE /\ ctrl' = Eval(Head(Top.rest))
                  /\ stack' = ReplaceTop([Top EXCEPT !.arguments = arguments,
                                                     !.rest = Tail(Top.rest)])
                  /\ UNCHANGED <<output, HAD_ERROR>>
       \/ /\ Resumes("call_invoke", {"val"})
          /\ ctrl' = ctrl /\ stack' = Pop
          /\ UNCHANGED <<output, HAD_ERROR>>
    /\ UNCHANGED <<program, envs, environment, globals>>

\* Function::call lines 44-47: the environment of the call
RECURSIVE BindParams(_, _, _, _)
BindParams(env, params, arguments, i) ==
    IF i > Len(params) THEN env
    ELSE BindParams(Environment_define(env, params[i].lexeme, arguments[i]),
                    params, arguments, i + 1)

\* the environment of the call hung under the caller's current environment
CallEnvironment_dynamic(function, arguments) ==
    BindParams(Environment_new_from(environment), function.params, arguments, 1)

CallEnvironment(function, arguments) ==
    BindParams(Environment_new_from(function.enclosing), function.params, arguments, 1)

\* Function::call
Function_call ==
    /\ \/ /\ ctrl.m = "call"
          /\ LET function == ctrl.function
                 arguments == ctrl.arguments
             IN IF function.kind = "Native"
                THEN /\ \E now \in 0..MaxClock : ctrl' = Val(VNumber(now))
                     /\ UNCHANGED <<envs, stack>>
                ELSE IF Len(arguments) < Len(function.params)
                THEN \* arguments[i]: index out of bounds
                     /\ ctrl' = Panic("index out of bounds")
                     /\ UNCHANGED <<envs, stack>>
                ELSE /\ CanPush /\ CanAlloc
                     /\ envs' = Append(envs, CallEnvironment(function, arguments))
                     /\ ctrl' = [m |-> "block", statements |-> function.body,
                                 environment |-> Len(envs) + 1]
                     /\ stack' = Push([f |-> "call"])
       \/ /\ Resumes("call", {"ok", "ret"})
          /\ ctrl' = IF ctrl.m = "ret" THEN Val(ctrl.v) ELSE Val(VNone)
          /\ stack' = Pop
          /\ envs' = envs
    /\ UNCHANGED <<program, environment, globals, output, HAD_ERROR>>

visit_expression_stmt ==
    /\ \/ /\ StmtIs("Expression") /\ CanPush
          /\ ctrl' = Eval(ctrl.stmt.e)
          /\ stack' = Push([f |-> "expression_stmt"])
       \/ /\ Resumes("expression_stmt", {"val"})
          /\ ctrl' = OkUnit /\ stack' = Pop
    /\ UNCHANGED <<program, envs, environment, globals, output, HAD_ERROR>>

visit_print_stmt ==
    /\ \/ /\ StmtIs("Print") /\ CanPush
          /\ ctrl' = Eval(ctrl.stmt.e)
          /\ stack' = Push([f |-> "print_stmt"])
          /\ output' = output
       \/ /\ Resumes("print_stmt", {"val"})
          /\ output' = Append(output, Display(ctrl.v))
          /\ ctrl' = OkUnit /\ stack' = Pop
    /\ UNCHANGED <<program, envs, environment, globals, HAD_ERROR>>

visit_return_stmt ==
    /\ \/ /\ StmtIs("Return")
          /\ IF ctrl.stmt.value.some
             THEN /\ CanPush
                  /\ ctrl' = Eval(ctrl.stmt.value.x)
                  /\ stack' = Push([f |-> "return_stmt"])
             ELSE ctrl' = ErrReturn(VNone) /\ stack' = stack
       \/ /\ Resumes("return_stmt", {"val"})
          /\ ctrl' = ErrReturn(ctrl.v) /\ stack' = Pop
    /\ UNCHANGED <<program, envs, environment, globals, output, HAD_ERROR>>

visit_var_stmt ==
    /\ \/ /\ StmtIs("Var")
          /\ IF ctrl.stmt.init.some
             THEN /\ CanPush
                  /\ ctrl' = Eval(ctrl.stmt.init.x)
                  /\ stack' = Push([f |-> "var_stmt", name |-> ctrl.stmt.name])
                  /\ envs' = envs
             ELSE /\ envs' = [envs EXCEPT ![environment] =
                                Environment_define(@, ctrl.stmt.name.lexeme, VNone)]
                  /\ ctrl' = OkUnit /\ stack' = stack
       \/ /\ Resumes("var_stmt", {"val"})
          /\ envs' = [envs EXCEPT ![environment] =
                        Environment_define(@, Top.name.lexeme, ctrl.v)]
          /\ ctrl' = OkUnit /\ stack' = Pop
    /\ UNCHANGED <<program, environment, globals, output, HAD_ERROR>>

\* visit_while_stmt dropping the result of the body (no `?`)
visit_while_stmt_swallow ==
    /\ \/ /\ StmtIs("While") /\ CanPush
          /\ ctrl' = Eval(ctrl.stmt.c)
          /\ stack' = Push([f |-> "while_condition", c |-> ctrl.stmt.c,
                            body |-> ctrl.stmt.body])
       \/ /\ Resumes("while_condition", {"val"})
          /\ IF is_truthy(ctrl.v)
             THEN /\ ctrl' = Exec(Top.body)
                  /\ stack' = ReplaceTop([Top EXCEPT !.f = "while_body"])
             ELSE ctrl' = OkUnit /\ stack' = Pop
       \/ /\ Resumes("while_body", {"ok", "ret"})
          /\ ctrl' = Eval(Top.c)
          /\ stack' = ReplaceTop([Top EXCEPT !.f = "while_condition"])
    /\ UNCHANGED <<program, envs, environment, globals, output, HAD_ERROR>>

visit_while_stmt ==
    /\ \/ /\ StmtIs("While") /\ CanPush
          /\ ctrl' = Eval(ctrl.stmt.c)
          /\ stack' = Push([f |-> "while_condition", c |-> ctrl.stmt.c,
                            body |-> ctrl.stmt.body])
       \/ /\ Resumes("while_condition", {"val"})
          /\ IF is_truthy(ctrl.v)
             THEN /\ ctrl' = Exec(Top.body)
                  /\ stack' = ReplaceTop([Top EXCEPT !.f = "while_body"])
             ELSE ctrl' = OkUnit /\ stack' = Pop
       \/ /\ Resumes("while_body", {"ok"})
          /\ ctrl' = Eval(Top.c)
          /\ stack' = ReplaceTop([Top EXCEPT !.f = "while_condition"])
       \/ /\ Resumes("while_body", {"ret"})
          /\ ctrl' = ctrl /\ stack' = Pop
    /\ UNCHANGED <<program, envs, environment, globals, output, HAD_ERROR>>

visit_block_stmt ==
    /\ StmtIs("Block") /\ CanAlloc
    /\ envs' = Append(envs, Environment_new_from(environment))
    /\ ctrl' = [m |-> "block", statements |-> ctrl.stmt.stmts,
                environment |-> Len(envs) + 1]
    /\ UNCHANGED <<program, environment, globals, stack, output, HAD_ERROR>>

visit_if_stmt ==
    /\ \/ /\ StmtIs("If") /\ CanPush
          /\ ctrl' = Eval(ctrl.stmt.c)
          /\ stack' = Push([f |-> "if_stmt", th |-> ctrl.stmt.th, el |-> ctrl.stmt.el])
       \/ /\ Resumes("if_stmt", {"val"})
          /\ stack' = Pop
          /\ IF is_truthy(ctrl.v) THEN ctrl' = Exec(Top.th)
             ELSE IF Top.el.some THEN ctrl' = Exec(Top.el.x)
             ELSE ctrl' = OkUnit
    /\ UNCHANGED <<program, envs, environment, globals, output, HAD_ERROR>>

\* visit_function_stmt capturing a copy of the current environment
visit_function_stmt_snapshot ==
    /\ StmtIs("Function") /\ CanAlloc
    /\ LET function == VCallable(User(ctrl.stmt.body, ctrl.stmt.params,
                                      ctrl.stmt.name, Len(envs) + 1))
       IN envs' = Append([envs EXCEPT ![environment] =
                            Environment_define(@, ctrl.stmt.name.lexeme, function)],
                         envs[environment])
    /\ ctrl' = OkUnit
    /\ UNCHANGED <<program, environment, globals, stack, output, HAD_ERROR>>

\* the closure is the handle of the current environment: Rc::clone
visit_function_stmt ==
    /\ StmtIs("Function")
    /\ LET function == VCallable(User(ctrl.stmt.body, ctrl.stmt.params,
                                      ctrl.stmt.name, environment))
       IN envs' = [envs EXCEPT ![environment] =
                     Environment_define(@, ctrl.stmt.name.lexeme, function)]
    /\ ctrl' = OkUnit
    /\ UNCHANGED <<program, environment, globals, stack, output, HAD_ERROR>>


\* Stmt::accept, the arm of Stmt::Class: nothing is executed
Stmt_accept_Class ==
    /\ StmtIs("Class")
    /\ ctrl' = OkUnit
    /\ UNCHANGED <<program, envs, environment, globals, stack, output, HAD_ERROR>>

(***************************************************************************)
(* The programs the evaluator is run on: statement lists as Parser::parse   *)
(* returns them.                                                            *)
(***************************************************************************)
V(name) == Expr_Variable(Ident(name))
Num(n) == Expr_Literal(LNumber(n))
Str(x) == Expr_Literal(LString(x))
True == Expr_Literal(LBoolean(TRUE))
CallE(callee, args) == Expr_Call(callee, Paren(1), args)
Bin(l, ty, lexeme, r) == Expr_Binary(l, Op(ty, lexeme), r)
Set(name, e) == Expr_Assign(Ident(name), e)
VarS(name, e) == Stmt_Var(Ident(name), Some(e))
Fun(name, params, body) ==
    Stmt_Function(Ident(name), [i \in DOMAIN params |-> Ident(params[i])], body)
Ret(e) == Stmt_Return(Op("Return", "return"), Some(e))
RetNothing == Stmt_Return(Op("Return", "return"), NoneOpt)
Say(e) == Stmt_Print(e)
Do(e) == Stmt_Expression(e)

\* var a = "global"; { fun show() { print a; } show(); var a = "block"; show(); }
ProgShadow ==
    << VarS("a", Str("global")),
       Stmt_Block(<< Fun("show", <<>>, << Say(V("a")) >>),
                     Do(CallE(V("show"), <<>>)),
                     VarS("a", Str("block")),
                     Do(CallE(V("show"), <<>>)) >>) >>

\* fun make(){ var i=0; fun inc(){ i=i+1; return i;} return inc;}
\* var c=make(); print c(); print c();
ProgCounter ==
    << Fun("make", <<>>,
           << VarS("i", Num(0)),
              Fun("inc", <<>>, << Do(Set("i", Bin(V("i"), "Plus", "+", Num(1)))),
                                  Ret(V("i")) >>),
              Ret(V("inc")) >>),
       VarS("c", CallE(V("make"), <<>>)),
       Say(CallE(V("c"), <<>>)),
       Say(CallE(V("c"), <<>>)) >>

\* { var n = 1; fun get() { return n; } n = 2; print get(); var n = 3; print get(); }
ProgLateWrite ==
    << Stmt_Block(<< VarS("n", Num(1)),
                     Fun("get", <<>>, << Ret(V("n")) >>),
                     Do(Set("n", Num(2))),
                     Say(CallE(V("get"), <<>>)),
                     VarS("n", Num(3)),
                     Say(CallE(V("get"), <<>>)) >>) >>

\* fun fib(n){ if (n<2) return n; return fib(n-1)+fib(n-2);} print fib(3);
ProgFib ==
    << Fun("fib", <<"n">>,
           << Stmt_If(Bin(V("n"), "Less", "<", Num(2)), Ret(V("n")), NoneOpt),
              Ret(Bin(CallE(V("fib"), << Bin(V("n"), "Minus", "-", Num(1)) >>),
                      "Plus", "+",
                      CallE(V("fib"), << Bin(V("n"), "Minus", "-", Num(2)) >>))) >>),
       Say(CallE(V("fib"), << Num(3) >>)) >>

\* var x = "outer"; fun f(a, b) { print a; print b; print x; }
\* { var x = "caller"; print f(1, 2); }  fun g() { return; } print g();
ProgInvoke ==
    << VarS("x", Str("outer")),
       Fun("f", <<"a", "b">>, << Say(V("a")), Say(V("b")), Say(V("x")) >>),
       Stmt_Block(<< VarS("x", Str("caller")),
                     Say(CallE(V("f"), << Num(1), Num(2) >>)) >>),
       Fun("g", <<>>, << RetNothing >>),
       Say(CallE(V("g"), <<>>)) >>

\* fun f() { var i = 0;
\*   while (true) { { if (i == 1) return i; print "loop"; i = i + 1; } }
\*   print "after"; }
\* fun g() { var r = f(); print r; return 2; print "dead"; }
\* print g(); print "end";
ProgReturn ==
    << Fun("f", <<>>,
           << VarS("i", Num(0)),
              Stmt_While(True,
                  Stmt_Block(<< Stmt_Block(<<
                      Stmt_If(Bin(V("i"), "EqualEqual", "==", Num(1)), Ret(V("i")), NoneOpt),
                      Say(Str("loop")),
                      Do(Set("i", Bin(V("i"), "Plus", "+", Num(1)))) >>) >>)),
              Say(Str("after")) >>),
       Fun("g", <<>>,
           << VarS("r", CallE(V("f"), <<>>)), Say(V("r")), Ret(Num(2)), Say(Str("dead")) >>),
       Say(CallE(V("g"), <<>>)),
       Say(Str("end")) >>

\* the operand values of the logical programs
LogicalLiterals == {LNone, LBoolean(FALSE), LBoolean(TRUE), LNumber(0), LString("hi")}

\* var x = "unset"; print A op (x = B); print x;
ProgLogical(ty, lexeme, a, b) ==
    << VarS("x", Str("unset")),
       Say(Expr_Logical(Expr_Literal(a), Op(ty, lexeme),
                        Expr_Grouping(Set("x", Expr_Literal(b))))),
       Say(V("x")) >>

\* fun f(a) { print "body"; print a; } f(1, 2); print "next";
ProgTooManyArgs ==
    << Fun("f", <<"a">>, << Say(Str("body")), Say(V("a")) >>),
       Do(CallE(V("f"), << Num(1), Num(2) >>)),
       Say(Str("next")) >>

\* fun f(a, b) { print "body"; } f(1); print "next";
ProgTooFewArgs ==
    << Fun("f", <<"a", "b">>, << Say(Str("body")) >>),
       Do(CallE(V("f"), << Num(1) >>)),
       Say(Str("next")) >>

\* "text"(); print "next";
ProgNotCallable ==
    << Do(CallE(Str("text"), <<>>)), Say(Str("next")) >>

\* print "first"; print missing; print "next";
ProgUndefined ==
    << Say(Str("first")), Say(V("missing")), Say(Str("next")) >>

\* print -"text"; print "next";
ProgNegateString ==
    << Say(Expr_Unary(Op("Minus", "-"), Str("text"))), Say(Str("next")) >>

\* print 1 + "text"; print "next";
ProgAddMixed ==
    << Say(Bin(Num(1), "Plus", "+", Str("text"))), Say(Str("next")) >>

\* missing = 1; print "next";
ProgAssignUndefined ==
    << Do(Set("missing", Num(1))), Say(Str("next")) >>

\* var x = 1; { var x = 2; { x = 3; print x; } print x; } print x;
ProgAssignNearest ==
    << VarS("x", Num(1)),
       Stmt_Block(<< VarS("x", Num(2)),
                     Stmt_Block(<< Do(Set("x", Num(3))), Say(V("x")) >>),
                     Say(V("x")) >>),
       Say(V("x")) >>

\* fun f(a, b, c) { print "body"; } fun say(x) { print x; return x; }
\* fun callee() { print "callee"; return f; }
\* callee()(say(1), say(2), say(3));
ProgCallOrder ==
    << Fun("f", <<"a", "b", "c">>, << Say(Str("body")) >>),
       Fun("say", <<"x">>, << Say(V("x")), Ret(V("x")) >>),
       Fun("callee", <<>>, << Say(Str("callee")), Ret(V("f")) >>),
       Do(CallE(CallE(V("callee"), <<>>),
                << CallE(V("say"), <<Num(1)>>), CallE(V("say"), <<Num(2)>>),
                   CallE(V("say"), <<Num(3)>>) >>)) >>

\* fun say(x) { print x; return x; } "text"(say(1), say(2));
ProgCallOrderNotCallable ==
    << Fun("say", <<"x">>, << Say(V("x")), Ret(V("x")) >>),
       Do(CallE(Str("text"),
                << CallE(V("say"), <<Num(1)>>), CallE(V("say"), <<Num(2)>>) >>)) >>

\* fun g(a) { print "body"; } fun say(x) { print x; return x; } g(say(1), say(2));
ProgCallOrderArity ==
    << Fun("g", <<"a">>, << Say(Str("body")) >>),
       Fun("say", <<"x">>, << Say(V("x")), Ret(V("x")) >>),
       Do(CallE(V("g"),
                << CallE(V("say"), <<Num(1)>>), CallE(V("say"), <<Num(2)>>) >>)) >>

\* print nil; print true; print false; print "text";
\* fun f() { } print f; print clock;
ProgPrintValues ==
    << Say(Expr_Literal(LNone)), Say(True), Say(Expr_Literal(LBoolean(FALSE))),
       Say(Str("text")), Fun("f", <<>>, <<>>), Say(V("f")), Say(V("clock")) >>

\* the operands of the equality programs: literals of every variant, and
\* the names of two functions
EqualityOperands ==
    { Expr_Literal(LNone), True, Expr_Literal(LBoolean(FALSE)), Num(1), Num(2),
      Str("a"), Str("b"), V("f"), V("g") }

\* fun f() { } fun g() { } print x == y; print x != y;
ProgEquality(x, y) ==
    << Fun("f", <<>>, <<>>), Fun("g", <<>>, <<>>),
       Say(Bin(x, "EqualEqual", "==", y)), Say(Bin(x, "BangEqual", "!=", y)) >>

\* print 1; return 2; { return; print "skipped"; } print 3;
ProgTopReturn ==
    << Say(Num(1)), Ret(Num(2)),
       Stmt_Block(<< RetNothing, Say(Str("skipped")) >>), Say(Num(3)) >>

\* print clock;
ProgClock == << Say(V("clock")) >>

\* { fun now() { return clock(); } print now(); }
ProgClockNested ==
    << Stmt_Block(<< Fun("now", <<>>, << Ret(CallE(V("clock"), <<>>)) >>),
                     Say(CallE(V("now"), <<>>)) >>) >>

\* for (var i = 0; i < 3; i = i + 1) print i;  as the parser desugars it;
\* print !nil; print -(1 + 2) * 3; print "a" + "b"; print 6 / 3 >= 2;
\* var u; if (u) print "then"; else print "else"; {} class K { m() {} }
\* return 1; print "top";
ProgMisc ==
    << Stmt_Block(<< VarS("i", Num(0)),
                     Stmt_While(Bin(V("i"), "Less", "<", Num(3)),
                         Stmt_Block(<< Say(V("i")),
                                       Do(Set("i", Bin(V("i"), "Plus", "+", Num(1)))) >>)) >>),
       Say(Expr_Unary(Op("Bang", "!"), Expr_Literal(LNone))),
       Say(Bin(Expr_Unary(Op("Minus", "-"),
                          Expr_Grouping(Bin(Num(1), "Plus", "+", Num(2)))),
               "Star", "*", Num(3))),
       Say(Bin(Str("a"), "Plus", "+", Str("b"))),
       Say(Bin(Bin(Num(6), "Slash", "/", Num(3)), "GreaterEqual", ">=", Num(2))),
       Stmt_Var(Ident("u"), NoneOpt),
       Stmt_If(V("u"), Say(Str("then")), Some(Say(Str("else")))),
       Stmt_Block(<<>>),
       Stmt_Class(Ident("K"), << Fun("m", <<>>, <<>>) >>),
       Ret(Num(1)),
       Say(Str("top")) >>

\* fun down(n) { down(n + 1); } down(0);
ProgRecurseForever ==
    << Fun("down", <<"n">>,
           << Do(CallE(V("down"), << Bin(V("n"), "Plus", "+", Num(1)) >>)) >>),
       Do(CallE(V("down"), << Num(0) >>)) >>

\* var n = 0; while (true) { n = n + 1; }
ProgLoopForever ==
    << VarS("n", Num(0)),
       Stmt_While(True, Stmt_Block(<< Do(Set("n", Bin(V("n"), "Plus", "+", Num(1)))) >>)) >>

LogicalPrograms ==
    { ProgLogical("Or", "or", a, b) : a \in LogicalLiterals, b \in LogicalLiterals }
    \cup { ProgLogical("And", "and", a, b) : a \in LogicalLiterals, b \in LogicalLiterals }

Programs ==
    { ProgShadow, ProgCounter, ProgLateWrite, ProgFib, ProgInvoke, ProgReturn,
      ProgTooManyArgs, ProgTooFewArgs, ProgNotCallable, ProgUndefined,
      ProgNegateString, ProgAddMixed, ProgAssignUndefined, ProgAssignNearest,
      ProgCallOrder, ProgCallOrderNotCallable, ProgCallOrderArity, ProgClock,
      ProgPrintValues, ProgTopReturn,
      ProgClockNested, ProgMisc, ProgRecurseForever, ProgLoopForever }
    \cup LogicalPrograms
    \cup { ProgEquality(x, y) : x \in EqualityOperands, y \in EqualityOperands }

(***************************************************************************)
(* The specification of the evaluator: a fresh interpreter is handed the    *)
(* statements of one program.                                               *)
(***************************************************************************)
Init ==
    /\ program \in Programs
    /\ envs = << Interpreter_new_environment >>
    /\ environment = 1
    /\ globals = Interpreter_new_globals
    /\ stack = <<>>
    /\ ctrl = [m |-> "interpret", statements |-> program]
    /\ output = <<>>
    /\ HAD_ERROR = FALSE

Next ==
    \/ interpret
    \/ execute_block
    \/ visit_literal_expr
    \/ visit_logical_expr
    \/ visit_grouping_expr
    \/ visit_unary_expr
    \/ visit_binary_expr
    \/ visit_var_expr
    \/ visit_assign_expr
    \/ visit_call_expr
    \/ Function_call
    \/ visit_expression_stmt
    \/ visit_print_stmt
    \/ visit_return_stmt
    \/ visit_var_stmt
    \/ visit_while_stmt
    \/ visit_block_stmt
    \/ visit_if_stmt
    \/ visit_function_stmt
    \/ Stmt_accept_Class

Spec == Init /\ [][Next]_vars


(***************************************************************************)
(* Properties of the evaluator.                                             *)
(***************************************************************************)
Finished == ctrl.m = "done"

\* C1: the program of scenario 2 prints `global` twice: the free variable
\* `a` of `show` keeps its declaration-time binding after the later
\* `var a` in the block that `show` closed over.
C1_ShadowPrintsGlobalTwice ==
    (program = ProgShadow /\ Finished) => output = <<"global", "global">>

\* C2: a closure holds the environment instance, not a copy: what the
\* declaring scope assigns or defines after the declaration, and what an
\* earlier call assigned, is seen by the later calls (counter: 1 then 2).
C2_ClosureSharesEnvironment ==
    /\ (program = ProgCounter /\ Finished) => output = <<"1", "2">>
    /\ (program = ProgLateWrite /\ Finished) => output = <<"2", "3">>

C2_Witness ==
    /\ program = ProgLateWrite /\ Finished /\ output = <<"2", "3">>

\* the last binding of a name in a parameter list is the one that stays
LastOf(params, i) ==
    \A j \in DOMAIN params : j > i => params[j].lexeme /= params[i].lexeme

\* C3: a call of a user function allocates a fresh environment under the
\* captured environment (whatever the caller's environment is), binds the
\* parameters to the arguments in order, runs the body in it, and yields
\* the value of the `return` that ended it, Nil for `return;` and for a
\* body that ran to its end.
C3_InvocationStep ==
    /\ (ctrl.m = "call" /\ ctrl.function.kind = "User" /\ ctrl'.m = "block") =>
          LET f == ctrl.function
              e == envs'[ctrl'.environment]
          IN /\ ctrl'.environment \notin DOMAIN envs
             /\ \A h \in DOMAIN envs : envs'[h] = envs[h]
             /\ e.enclosing = f.enclosing
             /\ DOMAIN e.values = {f.params[i].lexeme : i \in DOMAIN f.params}
             /\ \A i \in DOMAIN f.params :
                   LastOf(f.params, i) => e.values[f.params[i].lexeme] = ctrl.arguments[i]
             /\ ctrl'.statements = f.body
    /\ (ctrl.m = "block" /\ ctrl.statements /= <<>>) =>
          environment' = ctrl.environment /\ ctrl' = Exec(Head(ctrl.statements))
    /\ (StmtIs("Return") /\ ~ctrl.stmt.value.some) => ctrl' = ErrReturn(VNone)
    /\ Resumes("call", {"ret"}) => ctrl' = Val(ctrl.v)
    /\ Resumes("call", {"ok"}) => ctrl' = Val(VNone)

C3_Invocation ==
    /\ []((program = ProgInvoke /\ Finished) =>
            output = <<"1", "2", "outer", Display(VNone), Display(VNone)>>)
    /\ [][C3_InvocationStep]_vars

\* a body starts in an environment whose parent is not the caller's
C3_Witness ==
    /\ ctrl.m = "block" /\ stack /= <<>> /\ Top.f = "call"
    /\ envs[ctrl.environment].enclosing /= environment
    /\ DOMAIN envs[ctrl.environment].values = {"a", "b"}

\* the execute_block calls that are active, innermost last
BlockFrames == SelectSeq(stack, LAMBDA fr : fr.f = "execute_block")
\* the environment the k-th active execute_block made current; the
\* environment of Interpreter::new below all of them
EnvOfBlock(k) == IF k = 0 THEN 1 ELSE BlockFrames[k].environment

\* C4: the current environment is the one of the innermost active block or
\* call body, and each of them remembers as `previous` the environment of
\* the one around it: when a block or call is over, by completion or by a
\* `return` unwinding, the environment current before it is current again.
C4_EnvironmentRestored ==
    /\ environment = EnvOfBlock(Len(BlockFrames))
    /\ \A k \in DOMAIN BlockFrames : BlockFrames[k].previous = EnvOfBlock(k - 1)

\* a `return` has left three nested blocks and the body and is at its call
C4_Witness ==
    /\ program = ProgReturn /\ ctrl.m = "ret" /\ stack /= <<>> /\ Top.f = "call"
    /\ Len(BlockFrames) = 1 /\ environment = EnvOfBlock(1)
    /\ Len(envs) >= 5

\* C5: a `return` leaves the blocks and loops of its body one after the
\* other without running anything else, and stops at the innermost call,
\* whose caller goes on with the value.
ActiveCalls == SelectSeq(stack, LAMBDA fr : fr.f = "call")

C5_ReturnStep ==
    (ctrl.m = "ret" /\ ActiveCalls /= <<>>) =>
        /\ stack' = Pop
        /\ UNCHANGED <<envs, output, HAD_ERROR>>
        /\ Top.f \in {"execute_block", "while_body", "call"}
        /\ Top.f \in {"execute_block", "while_body"} => ctrl' = ctrl
        /\ Top.f = "call" => ctrl' = Val(ctrl.v)

C5_ReturnUnwinds ==
    /\ []((program = ProgReturn /\ Finished) => output = <<"loop", "1", "2", "end">>)
    /\ []((program = ProgFib /\ Finished) => output = <<"2">>)
    /\ [][C5_ReturnStep]_vars

\* the `return` of f leaves the loop body while g is an active call too
C5_Witness ==
    /\ program = ProgReturn /\ ctrl.m = "ret" /\ stack /= <<>> /\ Top.f = "while_body"
    /\ Len(ActiveCalls) = 2

\* section 3.4: Nil and false are the falsy values
Falsy(literal) == literal \in {LNone, LBoolean(FALSE)}

\* what `var x = "unset"; print A op (x = B); print x;` has to print
LogicalExpected(ty, a, b) ==
    IF (ty = "Or" /\ ~Falsy(a)) \/ (ty = "And" /\ Falsy(a))
    THEN << Display(LiteralValue(a)), "unset" >>
    ELSE << Display(LiteralValue(b)), Display(LiteralValue(b)) >>

\* C6: `a or b` is a when a is truthy, `a and b` is a when a is falsy, and
\* then b is not evaluated (its assignment does not happen); otherwise the
\* result is b.  The result is the operand, not a boolean.
C6_ShortCircuit ==
    \A a \in LogicalLiterals, b \in LogicalLiterals :
        /\ (program = ProgLogical("Or", "or", a, b) /\ Finished) =>
               output = LogicalExpected("Or", a, b)
        /\ (program = ProgLogical("And", "and", a, b) /\ Finished) =>
               output = LogicalExpected("And", a, b)

\* `"hi" or (x = nil)` is "hi" and x keeps its value
C6_Witness ==
    /\ program = ProgLogical("Or", "or", LString("hi"), LNone)
    /\ Finished /\ output = <<"hi", "unset">>

\* C7: a call with a wrong number of arguments does not invoke the callee.
C7_ArityMismatchNotInvoked ==
    ctrl.m = "call" => Len(ctrl.arguments) = Function_arity(ctrl.function)

\* C8: once a runtime error was reported, no statement is executed any more.
C8_RuntimeErrorHalts ==
    HAD_ERROR => ctrl.m /= "exec"

\* C9: when the parser reported a syntax error for the source text, the
\* interpreter does not start executing any statement parsed from it.
\* (At the entry of interpret only the parser can have set HAD_ERROR.)
C9_ParseErrorSkipsEvaluation ==
    [][(ctrl.m = "interpret" /\ HAD_ERROR) => ctrl'.m /= "exec"]_vars

\* C10: looking `clock` up succeeds, from the top level and from nested
\* scopes, and yields the native callable of arity 0.
C10_ClockIsBound ==
    (ExprIs("Variable") /\ ctrl.expr.name.lexeme = "clock") =>
        LET res == Environment_get(envs, envs[environment], ctrl.expr.name)
        IN res.ok /\ res.value.t = "Callable" /\ res.value.f.kind = "Native"
           /\ Function_arity(res.value.f) = 0


(***************************************************************************)
(* The parser: parser.rs.  A parser state ps is the cursor `current`        *)
(* (zero-based, as in the source), the lines reported so far, and whether   *)
(* an unwrap or an index has panicked.  A parsing function yields           *)
(* [ok, node, ps]: Ok(node) or Err(_) together with the state it leaves.    *)
(***************************************************************************)
ParserState(current) == [current |-> current, reports |-> <<>>, panic |-> FALSE]
OkR(node, ps) == [ok |-> TRUE, node |-> node, ps |-> ps]
ErrR(ps) == [ok |-> FALSE, ps |-> ps]
Panicked(ps) == [ps EXCEPT !.panic = TRUE]

Parser_peek(ts, ps) == ts[ps.current + 1]

Parser_previous(ts, ps) == ts[ps.current]

Parser_is_at_end(ts, ps) == Parser_peek(ts, ps).token_type = "Eof"

Parser_check(ts, ps, token_type) ==
    IF Parser_is_at_end(ts, ps) THEN FALSE
    ELSE Parser_peek(ts, ps).token_type = token_type

\* the state after advance(); previous() at cursor 0 is tokens[0 - 1]
Parser_advance(ts, ps) ==
    LET moved == IF ~Parser_is_at_end(ts, ps) THEN [ps EXCEPT !.current = @ + 1] ELSE ps
    IN IF moved.current = 0 THEN Panicked(moved) ELSE moved

Parser_match_token(ts, ps, token_types) ==
    IF \E i \in DOMAIN token_types : Parser_check(ts, ps, token_types[i])
    THEN [matched |-> TRUE, ps |-> Parser_advance(ts, ps)]
    ELSE [matched |-> FALSE, ps |-> ps]

\* crate::error_at_token called from the parser
Parser_error_at_token(ts, ps, message) ==
    [ps EXCEPT !.reports = Append(@, ErrorAtTokenLine(Parser_peek(ts, ps), message))]

Parser_consume(ts, ps, token_type, message) ==
    IF Parser_check(ts, ps, token_type)
    THEN LET after == Parser_advance(ts, ps)
         IN OkR(Parser_previous(ts, after), after)
    ELSE ErrR(Parser_error_at_token(ts, ps, message))

\* self.<method>(): a call of one parsing method from another
RECURSIVE Parser_self(_, _, _)
RECURSIVE Parser_or_loop(_, _, _)
RECURSIVE Parser_and_loop(_, _, _)
RECURSIVE Parser_equality_loop(_, _, _)
RECURSIVE Parser_comparison_loop(_, _, _)
RECURSIVE Parser_term_loop(_, _, _)
RECURSIVE Parser_factor_loop(_, _, _)
RECURSIVE Parser_call_loop(_, _, _)
RECURSIVE Parser_arguments_loop(_, _, _)

Parser_expression(ts, ps) == Parser_self("assignment", ts, ps)

Parser_primary(ts, ps) ==
    LET false == Parser_match_token(ts, ps, <<"False">>)
        true == Parser_match_token(ts, ps, <<"True">>)
        nil == Parser_match_token(ts, ps, <<"Nil">>)
        lit == Parser_match_token(ts, ps, <<"Number", "String">>)
        ident == Parser_match_token(ts, ps, <<"Identifier">>)
        paren == Parser_match_token(ts, ps, <<"LeftParen">>)
    IN IF false.matched THEN OkR(Expr_Literal(LBoolean(FALSE)), false.ps)
    ELSE IF true.matched THEN OkR(Expr_Literal(LBoolean(TRUE)), true.ps)
    ELSE IF nil.matched THEN OkR(Expr_Literal(LNone), nil.ps)
    ELSE IF lit.matched
    THEN OkR(Expr_Literal(Parser_previous(ts, lit.ps).literal), lit.ps)
    ELSE IF ident.matched
    THEN OkR(Expr_Variable(Parser_previous(ts, ident.ps)), ident.ps)
    ELSE IF paren.matched
    THEN LET expr == Parser_self("expression", ts, paren.ps)
         IN IF ~expr.ok THEN expr
         ELSE LET close == Parser_consume(ts, expr.ps, "RightParen",
                           "Expect ')' after expression.")
              IN IF ~close.ok THEN close
              ELSE OkR(Expr_Grouping(expr.node), close.ps)
    ELSE ErrR(Parser_error_at_token(ts, ps, "Expect expression"))

\* the loop of finish_call
Parser_arguments_loop(ts, arguments, ps) ==
    LET limit == IF Len(arguments) >= 255
                 THEN Parser_error_at_token(ts, ps, "Can't have more than 255 arguments.")
                 ELSE ps
        x == Parser_self("expression", ts, limit)
        pushed == IF x.ok THEN Append(arguments, x.node) ELSE arguments
        comma == Parser_match_token(ts, x.ps, <<"Comma">>)
    IN IF x.ps.panic THEN ErrR(x.ps)
    ELSE IF comma.matched THEN Parser_arguments_loop(ts, pushed, comma.ps)
    ELSE OkR(pushed, comma.ps)

\* Err here is the panic of the unwrap
Parser_finish_call(ts, callee, ps) ==
    LET arguments == IF ~Parser_check(ts, ps, "RightParen")
                     THEN Parser_self("arguments", ts, ps)
                     ELSE OkR(<<>>, ps)
    IN IF ~arguments.ok THEN arguments
    ELSE LET paren == Parser_consume(ts, arguments.ps, "RightParen", "Expect ')' after arguments.")
         IN IF ~paren.ok THEN ErrR(Panicked(paren.ps))
    ELSE OkR(Expr_Call(callee, paren.node, arguments.node), paren.ps)

Parser_call_loop(ts, expr, ps) ==
    LET paren == Parser_match_token(ts, ps, <<"LeftParen">>)
        dot == Parser_match_token(ts, ps, <<"Dot">>)
    IN IF paren.matched
    THEN LET called == Parser_finish_call(ts, expr, paren.ps)
         IN IF ~called.ok THEN called
         ELSE Parser_call_loop(ts, called.node, called.ps)
    ELSE IF dot.matched
    THEN LET name == Parser_consume(ts, dot.ps, "Identifier",
                     "Expect property name after '.'.")
         IN IF ~name.ok THEN name
         ELSE Parser_call_loop(ts, Expr_Get(expr, name.node), name.ps)
    ELSE OkR(expr, ps)

Parser_call(ts, ps) ==
    LET expr == Parser_self("primary", ts, ps)
    IN IF ~expr.ok THEN expr ELSE Parser_call_loop(ts, expr.node, expr.ps)

Parser_unary(ts, ps) ==
    LET m == Parser_match_token(ts, ps, <<"Bang", "Minus">>)
    IN IF m.matched
    THEN LET right == Parser_self("unary", ts, m.ps)
         IN IF ~right.ok THEN right
         ELSE OkR(Expr_Unary(Parser_previous(ts, m.ps), right.node), right.ps)
    ELSE Parser_self("call", ts, ps)

Parser_factor_loop(ts, expr, ps) ==
    LET m == Parser_match_token(ts, ps, <<"Slash", "Star">>)
    IN IF ~m.matched THEN OkR(expr, ps)
    ELSE LET right == Parser_self("unary", ts, m.ps)
         IN IF ~right.ok THEN right
         ELSE Parser_factor_loop(ts,
                  Expr_Binary(expr, Parser_previous(ts, m.ps), right.node), right.ps)

Parser_factor(ts, ps) ==
    LET expr == Parser_self("unary", ts, ps)
    IN IF ~expr.ok THEN expr ELSE Parser_factor_loop(ts, expr.node, expr.ps)

Parser_term_loop(ts, expr, ps) ==
    LET m == Parser_match_token(ts, ps, <<"Minus", "Plus">>)
    IN IF ~m.matched THEN OkR(expr, ps)
    ELSE LET right == Parser_self("factor", ts, m.ps)
         IN IF ~right.ok THEN right
         ELSE Parser_term_loop(ts,
                  Expr_Binary(expr, Parser_previous(ts, m.ps), right.node), right.ps)

\* a term that recurses into term on the right of its operator
Parser_term_right(ts, ps) ==
    LET expr == Parser_self("factor", ts, ps)
    IN IF ~expr.ok THEN expr
    ELSE LET m == Parser_match_token(ts, expr.ps, <<"Minus", "Plus">>)
         IN IF ~m.matched THEN expr
         ELSE LET right == Parser_self("term", ts, m.ps)
              IN IF ~right.ok THEN right
              ELSE OkR(Expr_Binary(expr.node, Parser_previous(ts, m.ps), right.node),
                       right.ps)

Parser_term(ts, ps) ==
    LET expr == Parser_self("factor", ts, ps)
    IN IF ~expr.ok THEN expr ELSE Parser_term_loop(ts, expr.node, expr.ps)

Parser_comparison_loop(ts, expr, ps) ==
    LET m == Parser_match_token(ts, ps, <<"Greater", "GreaterEqual", "Less", "LessEqual">>)
    IN IF ~m.matched THEN OkR(expr, ps)
    ELSE LET right == Parser_self("term", ts, m.ps)
         IN IF ~right.ok THEN right
         ELSE Parser_comparison_loop(ts,
                  Expr_Binary(expr, Parser_previous(ts, m.ps), right.node), right.ps)

Parser_comparison(ts, ps) ==
    LET expr == Parser_self("term", ts, ps)
    IN IF ~expr.ok THEN expr ELSE Parser_comparison_loop(ts, expr.node, expr.ps)

Parser_equality_loop(ts, expr, ps) ==
    LET m == Parser_match_token(ts, ps, <<"BangEqual", "EqualEqual">>)
    IN IF ~m.matched THEN OkR(expr, ps)
    ELSE LET right == Parser_self("comparison", ts, m.ps)
         IN IF ~right.ok THEN right
         ELSE Parser_equality_loop(ts,
                  Expr_Binary(expr, Parser_previous(ts, m.ps), right.node), right.ps)

Parser_equality(ts, ps) ==
    LET expr == Parser_self("comparison", ts, ps)
    IN IF ~expr.ok THEN expr ELSE Parser_equality_loop(ts, expr.node, expr.ps)

Parser_and_loop(ts, expr, ps) ==
    LET m == Parser_match_token(ts, ps, <<"And">>)
    IN IF ~m.matched THEN OkR(expr, ps)
    ELSE LET right == Parser_self("equality", ts, m.ps)
         IN IF ~right.ok THEN right
         ELSE Parser_and_loop(ts,
                  Expr_Logical(expr, Parser_previous(ts, m.ps), right.node), right.ps)

Parser_and(ts, ps) ==
    LET expr == Parser_self("equality", ts, ps)
    IN IF ~expr.ok THEN expr ELSE Parser_and_loop(ts, expr.node, expr.ps)

Parser_or_loop(ts, expr, ps) ==
    LET m == Parser_match_token(ts, ps, <<"Or">>)
    IN IF ~m.matched THEN OkR(expr, ps)
    ELSE LET right == Parser_self("and", ts, m.ps)
         IN IF ~right.ok THEN right
         ELSE Parser_or_loop(ts,
                  Expr_Logical(expr, Parser_previous(ts, m.ps), right.node), right.ps)

Parser_or(ts, ps) ==
    LET expr == Parser_self("and", ts, ps)
    IN IF ~expr.ok THEN expr ELSE Parser_or_loop(ts, expr.node, expr.ps)

\* Err(format!("Invalid assignment target. ..")) is returned, not reported
Parser_assignment(ts, ps) ==
    LET expr == Parser_self("or", ts, ps)
    IN IF ~expr.ok THEN expr
    ELSE LET m == Parser_match_token(ts, expr.ps, <<"Equal">>)
         IN IF ~m.matched THEN expr
    ELSE LET value == Parser_self("assignment", ts, m.ps)
         IN IF ~value.ok THEN value
    ELSE IF expr.node.k = "Variable"
    THEN OkR(Expr_Assign(expr.node.name, value.node), value.ps)
    ELSE IF expr.node.k = "Get"
    THEN OkR(Expr_Set(expr.node.object, expr.node.name, value.node), value.ps)
    ELSE ErrR(value.ps)


RECURSIVE Parser_block_loop(_, _, _)
RECURSIVE Parser_class_loop(_, _, _)
RECURSIVE Parser_parameters_loop(_, _, _)
RECURSIVE Parser_synchronize_loop(_, _)
RECURSIVE Parser_parse_loop(_, _, _)

SynchronizeKeywords ==
    {"Class", "Fun", "Var", "For", "If", "While", "Print", "Return"}

\* the while loop of synchronize
Parser_synchronize_loop(ts, ps) ==
    IF ps.panic \/ Parser_is_at_end(ts, ps) THEN ps
    ELSE IF Parser_previous(ts, ps).token_type = "Semicolon" THEN ps
    ELSE IF Parser_peek(ts, ps).token_type \in SynchronizeKeywords THEN ps
    ELSE LET after == Parser_advance(ts, ps)
         IN Parser_synchronize_loop(ts, after)

\* a synchronize that steps over one token without looking at it
Parser_synchronize_blind(ts, ps) == [ps EXCEPT !.current = @ + 1]

Parser_synchronize(ts, ps) ==
    LET after == Parser_advance(ts, ps)
    IN Parser_synchronize_loop(ts, after)

Parser_print_statement(ts, ps) ==
    LET value == Parser_self("expression", ts, ps)
    IN IF ~value.ok THEN value
    ELSE LET semi == Parser_consume(ts, value.ps, "Semicolon", "Expect ';' after value.")
         IN IF ~semi.ok THEN semi ELSE OkR(Stmt_Print(value.node), semi.ps)

\* the result of the last consume is dropped
Parser_return_statement(ts, ps) ==
    LET keyword == Parser_previous(ts, ps)
        tried == ~Parser_check(ts, ps, "Semicolon")
        ex == Parser_self("expression", ts, ps)
        value == IF tried /\ ex.ok THEN Some(ex.node) ELSE NoneOpt
        after == IF tried THEN ex.ps ELSE ps
        semi == Parser_consume(ts, after, "Semicolon", "Expect ';' after return value.")
    IN IF after.panic THEN ErrR(after)
    ELSE OkR(Stmt_Return(keyword, value), semi.ps)

Parser_var_declaration(ts, ps) ==
    LET name == Parser_consume(ts, ps, "Identifier", "Expect variable name.")
    IN IF ~name.ok THEN name
    ELSE LET eq == Parser_match_token(ts, name.ps, <<"Equal">>)
             ex == Parser_self("expression", ts, eq.ps)
             initializer == IF eq.matched /\ ex.ok THEN Some(ex.node) ELSE NoneOpt
             after == IF eq.matched THEN ex.ps ELSE eq.ps
             semi == Parser_consume(ts, after, "Semicolon",
                     "Expect ';' after variable declaration.")
         IN IF after.panic THEN ErrR(after)
         ELSE IF ~semi.ok THEN semi
         ELSE OkR(Stmt_Var(name.node, initializer), semi.ps)

Parser_expression_statement(ts, ps) ==
    LET expr == Parser_self("expression", ts, ps)
    IN IF ~expr.ok THEN expr
    ELSE LET semi == Parser_consume(ts, expr.ps, "Semicolon", "Expect ';' after expression.")
         IN IF ~semi.ok THEN semi ELSE OkR(Stmt_Expression(expr.node), semi.ps)

Parser_while_statement(ts, ps) ==
    LET lp == Parser_consume(ts, ps, "LeftParen", "Expect '(' after 'while'.")
    IN IF ~lp.ok THEN lp
    ELSE LET condition == Parser_self("expression", ts, lp.ps)
         IN IF ~condition.ok THEN condition
    ELSE LET rp == Parser_consume(ts, condition.ps, "RightParen",
                   "Expect ')' after condition.")
         IN IF ~rp.ok THEN rp
    ELSE LET body == Parser_self("statement", ts, rp.ps)
         IN IF ~body.ok THEN body
    ELSE OkR(Stmt_While(condition.node, body.node), body.ps)

Parser_if_statement(ts, ps) ==
    LET lp == Parser_consume(ts, ps, "LeftParen", "Expect '(' after 'if'.")
    IN IF ~lp.ok THEN lp
    ELSE LET condition == Parser_self("expression", ts, lp.ps)
         IN IF ~condition.ok THEN condition
    ELSE LET rp == Parser_consume(ts, condition.ps, "RightParen",
                   "Expect ')' after if condition.")
         IN IF ~rp.ok THEN rp
    ELSE LET then_branch == Parser_self("statement", ts, rp.ps)
         IN IF ~then_branch.ok THEN then_branch
    ELSE LET else == Parser_match_token(ts, then_branch.ps, <<"Else">>)
             branch == Parser_self("statement", ts, else.ps)
             else_branch == IF else.matched /\ branch.ok THEN Some(branch.node) ELSE NoneOpt
             after == IF else.matched THEN branch.ps ELSE else.ps
         IN IF after.panic THEN ErrR(after)
         ELSE OkR(Stmt_If(condition.node, then_branch.node, else_branch), after)

\* the initializer clause of for_statement; Option<Stmt>: ok is Some
Parser_for_initializer(ts, ps) ==
    LET semi == Parser_match_token(ts, ps, <<"Semicolon">>)
        var == Parser_match_token(ts, ps, <<"Var">>)
    IN IF semi.matched THEN ErrR(semi.ps)
    ELSE IF var.matched THEN Parser_self("var_declaration", ts, var.ps)
    ELSE Parser_self("expression_statement", ts, ps)

\* a for statement that puts the increment before the body
Parser_for_statement_step_first(ts, ps) ==
    LET lp == Parser_consume(ts, ps, "LeftParen", "Expect '(' after 'for'.")
    IN IF ~lp.ok THEN lp
    ELSE LET initializer == Parser_for_initializer(ts, lp.ps)
             condition == IF Parser_check(ts, initializer.ps, "Semicolon")
                          THEN OkR(Expr_Literal(LBoolean(TRUE)), initializer.ps)
                          ELSE Parser_self("expression", ts, initializer.ps)
         IN IF initializer.ps.panic THEN ErrR(initializer.ps)
    ELSE IF ~condition.ok THEN condition
    ELSE LET semi == Parser_consume(ts, condition.ps, "Semicolon",
                     "Expect ';' after loop condition.")
         IN IF ~semi.ok THEN semi
    ELSE \* Option<Expr>: ok is Some
         LET increment == IF Parser_check(ts, semi.ps, "RightParen")
                          THEN ErrR(semi.ps)
                          ELSE Parser_self("expression", ts, semi.ps)
             rp == Parser_consume(ts, increment.ps, "RightParen",
                   "Expect ')' after for clauses.")
         IN IF increment.ps.panic THEN ErrR(increment.ps)
    ELSE IF ~rp.ok THEN rp
    ELSE LET body == Parser_self("statement", ts, rp.ps)
         IN IF ~body.ok THEN body
    ELSE LET stepped == IF increment.ok
                        THEN Stmt_Block(<<Stmt_Expression(increment.node), body.node>>)
                        ELSE body.node
             loop == Stmt_While(condition.node, stepped)
         IN OkR(IF initializer.ok THEN Stmt_Block(<<initializer.node, loop>>) ELSE loop,
             body.ps)

Parser_for_statement(ts, ps) ==
    LET lp == Parser_consume(ts, ps, "LeftParen", "Expect '(' after 'for'.")
    IN IF ~lp.ok THEN lp
    ELSE LET initializer == Parser_for_initializer(ts, lp.ps)
             condition == IF Parser_check(ts, initializer.ps, "Semicolon")
                          THEN OkR(Expr_Literal(LBoolean(TRUE)), initializer.ps)
                          ELSE Parser_self("expression", ts, initializer.ps)
         IN IF initializer.ps.panic THEN ErrR(initializer.ps)
    ELSE IF ~condition.ok THEN condition
    ELSE LET semi == Parser_consume(ts, condition.ps, "Semicolon",
                     "Expect ';' after loop condition.")
         IN IF ~semi.ok THEN semi
    ELSE \* Option<Expr>: ok is Some
         LET increment == IF Parser_check(ts, semi.ps, "RightParen")
                          THEN ErrR(semi.ps)
                          ELSE Parser_self("expression", ts, semi.ps)
             rp == Parser_consume(ts, increment.ps, "RightParen",
                   "Expect ')' after for clauses.")
         IN IF increment.ps.panic THEN ErrR(increment.ps)
    ELSE IF ~rp.ok THEN rp
    ELSE LET body == Parser_self("statement", ts, rp.ps)
         IN IF ~body.ok THEN body
    ELSE LET stepped == IF increment.ok
                        THEN Stmt_Block(<<body.node, Stmt_Expression(increment.node)>>)
                        ELSE body.node
             loop == Stmt_While(condition.node, stepped)
         IN OkR(IF initializer.ok THEN Stmt_Block(<<initializer.node, loop>>) ELSE loop,
             body.ps)

\* Parser::block: Err here is the panic of the unwrap (or one inside)
Parser_block_loop(ts, statements, ps) ==
    IF ~Parser_check(ts, ps, "RightBrace") /\ ~Parser_is_at_end(ts, ps)
    THEN LET dec == Parser_self("declaration", ts, ps)
         IN IF dec.ps.panic THEN ErrR(dec.ps)
         ELSE Parser_block_loop(ts,
                  IF dec.ok THEN Append(statements, dec.node) ELSE statements, dec.ps)
    ELSE LET rb == Parser_consume(ts, ps, "RightBrace", "Expect '}' after block.")
         IN IF ~rb.ok THEN ErrR(Panicked(rb.ps)) ELSE OkR(statements, rb.ps)

Parser_block(ts, ps) == Parser_block_loop(ts, <<>>, ps)

Parser_statement(ts, ps) ==
    LET for == Parser_match_token(ts, ps, <<"For">>)
        if == Parser_match_token(ts, ps, <<"If">>)
        print == Parser_match_token(ts, ps, <<"Print">>)
        return == Parser_match_token(ts, ps, <<"Return">>)
        while == Parser_match_token(ts, ps, <<"While">>)
        brace == Parser_match_token(ts, ps, <<"LeftBrace">>)
    IN IF for.matched THEN Parser_self("for_statement", ts, for.ps)
    ELSE IF if.matched THEN Parser_self("if_statement", ts, if.ps)
    ELSE IF print.matched THEN Parser_self("print_statement", ts, print.ps)
    ELSE IF return.matched THEN Parser_self("return_statement", ts, return.ps)
    ELSE IF while.matched THEN Parser_self("while_statement", ts, while.ps)
    ELSE IF brace.matched
    THEN LET statements == Parser_self("block", ts, brace.ps)
         IN IF ~statements.ok THEN statements
         ELSE OkR(Stmt_Block(statements.node), statements.ps)
    ELSE Parser_self("expression_statement", ts, ps)

\* the loop of Parser::function
Parser_parameters_loop(ts, parameters, ps) ==
    LET limit == IF Len(parameters) >= 255
                 THEN Parser_error_at_token(ts, ps, "Can't have more than 255 parameters")
                 ELSE ps
        param == Parser_consume(ts, limit, "Identifier", "Expect parameter name.")
        pushed == IF param.ok THEN Append(parameters, param.node) ELSE parameters
        comma == Parser_match_token(ts, param.ps, <<"Comma">>)
    IN IF comma.matched THEN Parser_parameters_loop(ts, pushed, comma.ps)
    ELSE OkR(pushed, comma.ps)

Parser_function(ts, ps, kind) ==
    LET name == Parser_consume(ts, ps, "Identifier", "Expect " \o kind \o " name.")
    IN IF ~name.ok THEN ErrR(Panicked(name.ps))
    ELSE LET lp == Parser_consume(ts, name.ps, "LeftParen",
                   "Expect '(' after " \o kind \o " name.")
         IN IF ~lp.ok THEN lp
    ELSE LET parameters == IF ~Parser_check(ts, lp.ps, "RightParen")
                           THEN Parser_self("parameters", ts, lp.ps)
                           ELSE OkR(<<>>, lp.ps)
             rp == Parser_consume(ts, parameters.ps, "RightParen",
                   "Expect ')' after parameters.")
         IN IF ~rp.ok THEN rp
    ELSE LET lb == Parser_consume(ts, rp.ps, "LeftBrace",
                   "Expect '{' before " \o kind \o " body.")
         IN IF ~lb.ok THEN lb
    ELSE LET body == Parser_self("block", ts, lb.ps)
         IN IF ~body.ok THEN body
    ELSE OkR(Stmt_Function(name.node, parameters.node, body.node), body.ps)

\* the loop of class_declaration
Parser_class_loop(ts, methods, ps) ==
    IF ~Parser_check(ts, ps, "RightBrace") /\ ~Parser_is_at_end(ts, ps)
    THEN LET method == Parser_self("method", ts, ps)
         IN IF method.ps.panic THEN ErrR(method.ps)
         ELSE Parser_class_loop(ts,
                  IF method.ok THEN Append(methods, method.node) ELSE methods, method.ps)
    ELSE OkR(methods, ps)

Parser_class_declaration(ts, ps) ==
    LET name == Parser_consume(ts, ps, "Identifier", "Expect class name.")
    IN IF ~name.ok THEN name
    ELSE LET lb == Parser_consume(ts, name.ps, "LeftBrace",
                   "Expect '{' before class body.")
         IN IF ~lb.ok THEN lb
    ELSE LET methods == Parser_self("class_body", ts, lb.ps)
         IN IF ~methods.ok THEN methods
    ELSE LET rb == Parser_consume(ts, methods.ps, "RightBrace",
                   "Expect '}' after class body.")
         IN OkR(Stmt_Class(name.node, methods.node), rb.ps)

\* Option<Stmt>: ok is Some.  Only the `var` and the statement arm
\* synchronize.
Parser_declaration(ts, ps) ==
    LET class == Parser_match_token(ts, ps, <<"Class">>)
        fun == Parser_match_token(ts, ps, <<"Fun">>)
        var == Parser_match_token(ts, ps, <<"Var">>)
    IN IF class.matched THEN Parser_self("class_declaration", ts, class.ps)
    ELSE IF fun.matched THEN Parser_self("function", ts, fun.ps)
    ELSE LET stmt == IF var.matched THEN Parser_self("var_declaration", ts, var.ps)
                     ELSE Parser_self("statement", ts, ps)
         IN IF stmt.ok \/ stmt.ps.panic THEN stmt
         ELSE ErrR(Parser_synchronize(ts, stmt.ps))

\* the parsing methods by name
Parser_self(method, ts, ps) ==
    CASE method = "expression" -> Parser_expression(ts, ps)
      [] method = "assignment" -> Parser_assignment(ts, ps)
      [] method = "or" -> Parser_or(ts, ps)
      [] method = "and" -> Parser_and(ts, ps)
      [] method = "equality" -> Parser_equality(ts, ps)
      [] method = "comparison" -> Parser_comparison(ts, ps)
      [] method = "term" -> Parser_term(ts, ps)
      [] method = "factor" -> Parser_factor(ts, ps)
      [] method = "unary" -> Parser_unary(ts, ps)
      [] method = "call" -> Parser_call(ts, ps)
      [] method = "primary" -> Parser_primary(ts, ps)
      [] method = "statement" -> Parser_statement(ts, ps)
      [] method = "declaration" -> Parser_declaration(ts, ps)
      [] method = "block" -> Parser_block(ts, ps)
      [] method = "var_declaration" -> Parser_var_declaration(ts, ps)
      [] method = "expression_statement" -> Parser_expression_statement(ts, ps)
      [] method = "for_statement" -> Parser_for_statement(ts, ps)
      [] method = "if_statement" -> Parser_if_statement(ts, ps)
      [] method = "print_statement" -> Parser_print_statement(ts, ps)
      [] method = "return_statement" -> Parser_return_statement(ts, ps)
      [] method = "while_statement" -> Parser_while_statement(ts, ps)
      [] method = "class_declaration" -> Parser_class_declaration(ts, ps)
      [] method = "class_body" -> Parser_class_loop(ts, <<>>, ps)
      [] method = "function" -> Parser_function(ts, ps, "function")
      [] method = "method" -> Parser_function(ts, ps, "method")
      [] method = "parameters" -> Parser_parameters_loop(ts, <<>>, ps)
      [] method = "arguments" -> Parser_arguments_loop(ts, <<>>, ps)

Parser_parse_loop(ts, statements, ps) ==
    IF ps.panic \/ Parser_is_at_end(ts, ps)
    THEN [statements |-> statements, ps |-> ps]
    ELSE LET dec == Parser_self("declaration", ts, ps)
         IN Parser_parse_loop(ts,
             IF dec.ok THEN Append(statements, dec.node) ELSE statements, dec.ps)

\* Parser::new(tokens).parse()
Parser_parse(tokens) == Parser_parse_loop(tokens, <<>>, ParserState(0))


(***************************************************************************)
(* The driver: main.rs, run.  A source text is given by its words; its      *)
(* tokens are those Scanner::scan_tokens yields for one line of text with   *)
(* these words (no word but `or` starts with the letter o).                 *)
(***************************************************************************)
\* Scanner::new: the reserved words
Keywords ==
    [and |-> "And", class |-> "Class", else |-> "Else", false |-> "False",
     for |-> "For", fun |-> "Fun", if |-> "If", nil |-> "Nil", or |-> "Or",
     print |-> "Print", return |-> "Return", super |-> "Super", this |-> "This",
     true |-> "True", var |-> "Var", while |-> "While"]

\* Scanner::scan_token: the punctuation and the operators
Punctuation ==
    ("(" :> "LeftParen") @@ (")" :> "RightParen") @@ ("{" :> "LeftBrace")
    @@ ("}" :> "RightBrace") @@ ("," :> "Comma") @@ ("." :> "Dot")
    @@ ("-" :> "Minus") @@ ("+" :> "Plus") @@ (";" :> "Semicolon")
    @@ ("*" :> "Star") @@ ("!" :> "Bang") @@ ("!=" :> "BangEqual")
    @@ ("=" :> "Equal") @@ ("==" :> "EqualEqual") @@ ("<" :> "Less")
    @@ ("<=" :> "LessEqual") @@ (">" :> "Greater") @@ (">=" :> "GreaterEqual")
    @@ ("/" :> "Slash")

\* Scanner::number and Scanner::string: the literals of the sources below
NumberWords == ("0" :> 0) @@ ("1" :> 1) @@ ("2" :> 2) @@ ("3" :> 3)
StringWords == ("\"ran\"" :> "ran")

ScanWord(word) ==
    IF word \in DOMAIN Punctuation THEN Token(Punctuation[word], word, LNone, 1)
    ELSE IF word \in DOMAIN NumberWords
    THEN Token("Number", word, LNumber(NumberWords[word]), 1)
    ELSE IF word \in DOMAIN StringWords
    THEN Token("String", word, LString(StringWords[word]), 1)
    ELSE IF word \in DOMAIN Keywords THEN Token(Keywords[word], word, LNone, 1)
    ELSE Token("Identifier", word, LNone, 1)

\* Scanner::scan_tokens: the tokens of the words, then Eof
ScanWords(words) ==
    [i \in 1..(Len(words) + 1) |->
        IF i <= Len(words) THEN ScanWord(words[i]) ELSE Token("Eof", "", LNone, 1)]

\* a program without errors that uses every kind of statement and expression
SrcAll ==
    << "class", "K", "{", "m", "(", ")", "{", "}", "}",
       "fun", "f", "(", "a", ")", "{",
           "if", "(", "a", "or", "false", ")", "{", "return", "-", "(", "a", ")", ";", "}",
       "}",
       "var", "x", "=", "1", ";",
       "while", "(", "x", "<", "2", ")", "x", "=", "x", "+", "1", ";",
       "print", "f", "(", "x", ")", ";" >>

\* print "ran"; print ;
SrcBadPrint == << "print", "\"ran\"", ";", "print", ";" >>

\* var x = ; print x;
SrcBadInitializer == << "var", "x", "=", ";", "print", "x", ";" >>

\* print 1 +; print "ran"; for (;;) return
SrcBadOperand ==
    << "print", "1", "+", ";", "print", "\"ran\"", ";",
       "for", "(", ";", ";", ")", "return" >>

\* print "ran"
SrcNoSemicolon == << "print", "\"ran\"" >>

\* { print "ran";
SrcOpenBlock == << "{", "print", "\"ran\"", ";" >>

\* for (var x = 1; x < 2; x = x + 1) print x;
SrcFor ==
    << "for", "(", "var", "x", "=", "1", ";", "x", "<", "2", ";",
       "x", "=", "x", "+", "1", ")", "print", "x", ";" >>

\* nothing at all
SrcEmpty == <<>>

\* two operators of one level: x op y op z;
SrcSubtract == << "a", "-", "b", "-", "c", ";" >>
SrcDivide == << "a", "/", "b", "*", "c", ";" >>
SrcCompare == << "a", "<", "b", ">=", "c", ";" >>
SrcEqual == << "a", "==", "b", "!=", "c", ";" >>
SrcAnd == << "a", "and", "b", "and", "c", ";" >>
SrcOr == << "a", "or", "b", "or", "c", ";" >>
SameLevelSources == { SrcSubtract, SrcDivide, SrcCompare, SrcEqual, SrcAnd, SrcOr }

\* 1 + 2 * 3;
SrcPrecedence == << "1", "+", "2", "*", "3", ";" >>

\* a or b and c == a < b + c * a;
SrcLevels ==
    << "a", "or", "b", "and", "c", "==", "a", "<", "b", "+", "c", "*", "a", ";" >>

\* a = b = c;
SrcAssignChain == << "a", "=", "b", "=", "c", ";" >>

\* the three clauses of a for statement, each present or absent
ForInits == { << ";" >>, << "var", "i", "=", "0", ";" >>, << "i", "=", "0", ";" >> }
ForConds == { <<>>, << "i", "<", "3" >> }
ForIncrs == { <<>>, << "i", "=", "i", "+", "1" >> }

\* for (init cond; incr) return;
SrcForClauses(init, cond, incr) ==
    << "for", "(" >> \o init \o cond \o << ";" >> \o incr \o << ")", "return", ";" >>

\* for (var i = 0; i < 3; i = i + 1) print i; print i;
SrcForCount ==
    << "for", "(", "var", "i", "=", "0", ";", "i", "<", "3", ";",
       "i", "=", "i", "+", "1", ")", "print", "i", ";", "print", "i", ";" >>

\* f(1; print "ran";
SrcOpenCall == << "f", "(", "1", ";", "print", "\"ran\"", ";" >>

\* fun (a) { } print "ran";
SrcNoFunName == << "fun", "(", "a", ")", "{", "}", "print", "\"ran\"", ";" >>

\* var 1; print "ran";
SrcBadVar == << "var", "1", ";", "print", "\"ran\"", ";" >>

\* fun f 1; print "ran";
SrcBadFun == << "fun", "f", "1", ";", "print", "\"ran\"", ";" >>

\* class 1; print "ran";
SrcBadClass == << "class", "1", ";", "print", "\"ran\"", ";" >>

\* 1 = 2; print "ran";
SrcBadTarget == << "1", "=", "2", ";", "print", "\"ran\"", ";" >>

Sources ==
    { SrcAll, SrcBadPrint, SrcBadInitializer, SrcBadOperand, SrcNoSemicolon,
      SrcOpenBlock, SrcFor, SrcEmpty, SrcPrecedence, SrcLevels, SrcAssignChain,
      SrcBadTarget, SrcForCount, SrcBadVar, SrcBadFun, SrcBadClass,
      SrcOpenCall, SrcNoFunName }
    \cup SameLevelSources
    \cup {SrcForClauses(init, cond, incr) :
             init \in ForInits, cond \in ForConds, incr \in ForIncrs}

\* main.rs, run: scan, parse, interpret; HAD_ERROR is read after interpret
run ==
    /\ ctrl.m = "run"
    /\ \E parsed \in {Parser_parse(ctrl.tokens)} :
       /\ output' = output \o parsed.ps.reports
       /\ HAD_ERROR' = (HAD_ERROR \/ parsed.ps.reports /= <<>>)
       /\ IF parsed.ps.panic
          THEN ctrl' = Panic("parser") /\ program' = program
          ELSE /\ program' = parsed.statements
               /\ ctrl' = [m |-> "interpret", statements |-> parsed.statements]
    /\ UNCHANGED <<envs, environment, globals, stack>>

InitRun ==
    /\ program = <<>>
    /\ envs = << Interpreter_new_environment >>
    /\ environment = 1
    /\ globals = Interpreter_new_globals
    /\ stack = <<>>
    /\ \E words \in Sources : ctrl = [m |-> "run", tokens |-> ScanWords(words)]
    /\ output = <<>>
    /\ HAD_ERROR = FALSE

NextRun == run \/ Next

SpecRun == InitRun /\ [][NextRun]_vars


(***************************************************************************)
(* Claims about assignment, definition and lookup.                          *)
(***************************************************************************)
\* the handles of the chain that starts at h, nearest first
RECURSIVE Chain(_, _)
Chain(es, h) == IF h = 0 THEN <<>> ELSE <<h>> \o Chain(es, es[h].enclosing)

\* the places of the chain whose table binds the name
Binders(es, chain, lexeme) ==
    {i \in 1..Len(chain) : lexeme \in DOMAIN es[chain[i]].values}

Nearest(S) == CHOOSE i \in S : \A j \in S : i <= j

C11_AssignStep ==
    Resumes("assign", {"val"}) =>
        LET lexeme == Top.name.lexeme
            chain == Chain(envs, environment)
            binders == Binders(envs, chain, lexeme)
        IN IF binders = {}
           THEN /\ envs' = envs
                /\ ctrl' = Panic("Undefined variable " \o lexeme \o ".")
           ELSE /\ ctrl' = Val(ctrl.v)
                /\ Len(envs') = Len(envs)
                /\ \A k \in 1..Len(envs) :
                      /\ envs'[k].enclosing = envs[k].enclosing
                      /\ DOMAIN envs'[k].values = DOMAIN envs[k].values
                      /\ \A n \in DOMAIN envs[k].values :
                            envs'[k].values[n] =
                                IF k = chain[Nearest(binders)] /\ n = lexeme
                                THEN ctrl.v ELSE envs[k].values[n]

\* C11: an assignment overwrites the binding of the nearest environment of
\* the current chain that binds the name, changes no other binding and has
\* the assigned value; when no environment of the chain binds the name it
\* fails with the undefined-variable error and no environment changes.
C11_AssignNearestOrFail == [][C11_AssignStep]_vars

\* the inner block wrote the x of the middle block and left the global x
C11_Witness ==
    program = ProgAssignNearest /\ Finished /\ output = <<"3", "3", "1">>


\* what a step that defines `name` as v in the current environment does
C12_Defined(name, v) ==
    /\ Len(envs') = Len(envs)
    /\ \A k \in 1..Len(envs) : k /= environment => envs'[k] = envs[k]
    /\ envs'[environment].enclosing = envs[environment].enclosing
    /\ DOMAIN envs'[environment].values =
           DOMAIN envs[environment].values \cup {name.lexeme}
    /\ \A n \in DOMAIN envs[environment].values \ {name.lexeme} :
           envs'[environment].values[n] = envs[environment].values[n]
    /\ Environment_get(envs', envs'[environment], name) = [ok |-> TRUE, value |-> v]

C12_DefineStep ==
    /\ (StmtIs("Var") /\ ~ctrl.stmt.init.some) => C12_Defined(ctrl.stmt.name, VNone)
    /\ Resumes("var_stmt", {"val"}) => C12_Defined(Top.name, ctrl.v)

C12_GetStep ==
    ExprIs("Variable") =>
        LET lexeme == ctrl.expr.name.lexeme
            chain == Chain(envs, environment)
            binders == Binders(envs, chain, lexeme)
        IN IF binders = {}
           THEN ctrl' = Panic("Undefined variable '" \o lexeme \o "'.")
           ELSE ctrl' = Val(envs[chain[Nearest(binders)]].values[lexeme])

\* C12: define changes only the local table of the environment it is called
\* on, a get of the name through that environment then yields the value
\* (also when it rebinds), a get of a name bound at several levels yields the
\* nearest binding, and a get of a name bound nowhere fails with
\* "Undefined variable '<name>'".
C12_DefineLocalGetNearest == [][C12_DefineStep /\ C12_GetStep]_vars

\* `a` has just been defined in a block under the global `a`
C12_Witness ==
    /\ program = ProgShadow /\ ctrl = OkUnit
    /\ Cardinality(Binders(envs, Chain(envs, environment), "a")) = 2
    /\ envs[environment].values["a"] = VString("block")


(***************************************************************************)
(* Claims about the order of evaluation in a call.                          *)
(***************************************************************************)
IsPrefix(a, b) == Len(a) <= Len(b) /\ \A i \in 1..Len(a) : a[i] = b[i]

\* what the program prints, in order, when it has run
CallOrderExpected ==
    IF program = ProgCallOrder THEN <<"callee", "1", "2", "3", "body">>
    ELSE IF program = ProgCallOrderNotCallable
    THEN <<"1", "2", ErrorAtTokenLine(Paren(1), "Can only call functions and classes.")>>
    ELSE <<"1", "2", ErrorAtTokenLine(Paren(1), "Expected 1 argument but got 2."),
           "body">>

\* C13: in a call the callee is evaluated first, then the arguments from left
\* to right, each once, and only then is the callee checked or invoked.
C13_CallOrder ==
    program \in {ProgCallOrder, ProgCallOrderNotCallable, ProgCallOrderArity} =>
        /\ IsPrefix(output, CallOrderExpected)
        /\ Finished => output = CallOrderExpected

\* the callee and the three arguments have printed, then the body
C13_Witness ==
    program = ProgCallOrder /\ Finished
    /\ output = <<"callee", "1", "2", "3", "body">>


(***************************************************************************)
(* The scanner: src/src/scanner.rs.  The source text is a sequence of       *)
(* one-character strings; `start` and `current` count characters from 0     *)
(* as in the code, so the character at offset n is source[n + 1].           *)
(***************************************************************************)
\* longest source text drawn from ScanAlphabet
MaxSource == 4

\* what peek and peek_next return past the end of the text ('\0')
NUL == "NUL"

Digits == {"0", "1", "2", "3", "4", "5", "6", "7", "8", "9"}
Letters ==
    {"a", "b", "c", "d", "e", "f", "g", "h", "i", "j", "k", "l", "m",
     "n", "o", "p", "q", "r", "s", "t", "u", "v", "w", "x", "y", "z",
     "A", "B", "C", "D", "E", "F", "G", "H", "I", "J", "K", "L", "M",
     "N", "O", "P", "Q", "R", "S", "T", "U", "V", "W", "X", "Y", "Z"}

is_digit(c) == c \in Digits
is_alpha(c) == c \in Letters \/ c = "_"
is_alpha_numeric(c) == is_alpha(c) \/ is_digit(c)

RECURSIVE Concat(_)
Concat(chars) == IF chars = <<>> THEN "" ELSE Head(chars) \o Concat(Tail(chars))

DigitValue ==
    ("0" :> 0) @@ ("1" :> 1) @@ ("2" :> 2) @@ ("3" :> 3) @@ ("4" :> 4) @@
    ("5" :> 5) @@ ("6" :> 6) @@ ("7" :> 7) @@ ("8" :> 8) @@ ("9" :> 9)

RECURSIVE Decimal(_)
Decimal(chars) ==
    IF chars = <<>> THEN 0
    ELSE 10 * Decimal(SubSeq(chars, 1, Len(chars) - 1)) + DigitValue[chars[Len(chars)]]

\* str::parse::<f64> on the text of a number: a run of digits is its value;
\* digits, a dot and digits is the pair of the whole part and the digits of
\* the fraction
ParseF64(chars) ==
    IF \E i \in 1..Len(chars) : chars[i] = "."
    THEN LET dot == CHOOSE i \in 1..Len(chars) : chars[i] = "."
         IN  [whole |-> Decimal(SubSeq(chars, 1, dot - 1)),
              fraction |-> SubSeq(chars, dot + 1, Len(chars))]
    ELSE Decimal(chars)

Scanner_new(source) ==
    [source |-> source, tokens |-> <<>>, start |-> 0, current |-> 0, line |-> 1,
     panic |-> ""]

Scanner_is_at_end(sc) == sc.current >= Len(sc.source)

Scanner_peek(sc) == IF Scanner_is_at_end(sc) THEN NUL ELSE sc.source[sc.current + 1]

\* the character returned is the one at `current`, the same as peek's
Scanner_peek_next(sc) ==
    IF sc.current + 1 >= Len(sc.source) THEN NUL ELSE sc.source[sc.current + 1]

Scanner_advance(sc) == [sc EXCEPT !.current = @ + 1]

Scanner_match_token(sc, expected) ==
    IF Scanner_is_at_end(sc) THEN [matched |-> FALSE, sc |-> sc]
    ELSE IF sc.source[sc.current + 1] /= expected THEN [matched |-> FALSE, sc |-> sc]
    ELSE [matched |-> TRUE, sc |-> [sc EXCEPT !.current = @ + 1]]

Scanner_source_substring(sc, start, current) == SubSeq(sc.source, start + 1, current)

Scanner_add_token_full(sc, token_type, literal) ==
    [sc EXCEPT !.tokens =
        Append(@, Token(token_type,
                        Concat(Scanner_source_substring(sc, sc.start, sc.current)),
                        literal, sc.line))]

Scanner_add_token(sc, token_type) == Scanner_add_token_full(sc, token_type, LNone)

\* '!', '=', '<', '>': one token or the other as '=' follows
Scanner_one_or_two(sc, two, one) ==
    LET m == Scanner_match_token(sc, "=")
    IN  Scanner_add_token(m.sc, IF m.matched THEN two ELSE one)

RECURSIVE Scanner_comment_loop(_)
Scanner_comment_loop(sc) ==
    IF Scanner_peek(sc) /= "\n" /\ ~Scanner_is_at_end(sc)
    THEN Scanner_comment_loop(Scanner_advance(sc))
    ELSE sc

RECURSIVE Scanner_identifier_loop(_)
Scanner_identifier_loop(sc) ==
    IF is_alpha_numeric(Scanner_peek(sc))
    THEN Scanner_identifier_loop(Scanner_advance(sc))
    ELSE sc

Scanner_identifier(sc0) ==
    LET sc == Scanner_identifier_loop(sc0)
        text == Concat(Scanner_source_substring(sc, sc.start, sc.current))
    IN  Scanner_add_token(sc, IF text \in DOMAIN Keywords THEN Keywords[text]
                              ELSE "Identifier")

RECURSIVE Scanner_number_loop(_)
Scanner_number_loop(sc) ==
    IF is_digit(Scanner_peek(sc))
    THEN Scanner_number_loop(Scanner_advance(sc))
    ELSE sc

Scanner_number(sc0) ==
    LET whole == Scanner_number_loop(sc0)
        sc == IF Scanner_peek(whole) = "." /\ is_digit(Scanner_peek_next(whole))
              THEN Scanner_number_loop(Scanner_advance(whole))
              ELSE whole
    IN  Scanner_add_token_full(sc, "Number",
            LNumber(ParseF64(Scanner_source_substring(sc, sc.start, sc.current))))

\* a string loop that does not count the lines it crosses
RECURSIVE Scanner_string_loop_same_line(_)
Scanner_string_loop_same_line(sc) ==
    IF Scanner_peek(sc) /= "\"" /\ ~Scanner_is_at_end(sc)
    THEN Scanner_string_loop_same_line(Scanner_advance(sc))
    ELSE sc

RECURSIVE Scanner_string_loop(_)
Scanner_string_loop(sc) ==
    IF Scanner_peek(sc) /= "\"" /\ ~Scanner_is_at_end(sc)
    THEN Scanner_string_loop(
            Scanner_advance(IF Scanner_peek(sc) = "\n"
                            THEN [sc EXCEPT !.line = @ + 1] ELSE sc))
    ELSE sc

Scanner_string(sc0) ==
    LET sc == Scanner_string_loop(sc0)
    IN  IF Scanner_is_at_end(sc)
        THEN [sc EXCEPT !.panic = "Unterminated string. " \o ToString(sc.line)]
        ELSE LET closed == Scanner_advance(sc)
             IN  Scanner_add_token_full(closed, "String",
                    LString(Concat(Scanner_source_substring(
                        closed, closed.start + 1, closed.current - 1))))

SingleCharacter ==
    ("(" :> "LeftParen") @@ (")" :> "RightParen") @@ ("{" :> "LeftBrace") @@
    ("}" :> "RightBrace") @@ ("," :> "Comma") @@ ("." :> "Dot") @@
    ("-" :> "Minus") @@ ("+" :> "Plus") @@ (";" :> "Semicolon") @@ ("*" :> "Star")

Scanner_scan_token(sc0) ==
    LET c == sc0.source[sc0.current + 1]
        sc == Scanner_advance(sc0)
    IN  IF c \in DOMAIN SingleCharacter THEN Scanner_add_token(sc, SingleCharacter[c])
        ELSE IF c = "!" THEN Scanner_one_or_two(sc, "BangEqual", "Bang")
        ELSE IF c = "=" THEN Scanner_one_or_two(sc, "EqualEqual", "Equal")
        ELSE IF c = "<" THEN Scanner_one_or_two(sc, "LessEqual", "Less")
        ELSE IF c = ">" THEN Scanner_one_or_two(sc, "GreaterEqual", "Greater")
        ELSE IF c = "/"
        THEN LET m == Scanner_match_token(sc, "/")
             IN  IF m.matched THEN Scanner_comment_loop(m.sc)
                 ELSE Scanner_add_token(sc, "Slash")
        ELSE IF c \in {" ", "\t", "\r"} THEN sc
        ELSE IF c = "\n" THEN [sc EXCEPT !.line = @ + 1]
        ELSE IF c = "\"" THEN Scanner_string(sc)
        ELSE IF c = "o"
        THEN LET m == Scanner_match_token(sc, "r")
             IN  IF m.matched THEN Scanner_add_token(m.sc, "Or") ELSE sc
        ELSE IF is_digit(c) THEN Scanner_number(sc)
        ELSE IF is_alpha(c) THEN Scanner_identifier(sc)
        ELSE [sc EXCEPT !.panic = "Lexical error on " \o ToString(sc.line)]

\* one turn of the loop of scan_tokens
scan_token ==
    /\ ctrl.m = "scan"
    /\ ~Scanner_is_at_end(ctrl.scanner)
    /\ \E sc \in {Scanner_scan_token([ctrl.scanner EXCEPT !.start = ctrl.scanner.current])} :
          ctrl' = IF sc.panic /= "" THEN Panic(sc.panic)
                  ELSE [m |-> "scan", scanner |-> sc]
    /\ UNCHANGED <<program, envs, environment, globals, stack, output, HAD_ERROR>>

\* the end of scan_tokens: the Eof token, and the tokens are returned
scan_tokens ==
    /\ ctrl.m = "scan"
    /\ Scanner_is_at_end(ctrl.scanner)
    /\ ctrl' = [m |-> "scanned", source |-> ctrl.scanner.source,
                tokens |-> Append(ctrl.scanner.tokens,
                                  Token("Eof", "", LNone, ctrl.scanner.line))]
    /\ UNCHANGED <<program, envs, environment, globals, stack, output, HAD_ERROR>>

\* the characters of the exhaustive source texts
ScanAlphabet == {"o", "r", "a", "1", ".", "\"", "\n"}

RECURSIVE Texts(_)
Texts(n) ==
    IF n = 0 THEN { <<>> }
    ELSE LET shorter == Texts(n - 1)
         IN  shorter \cup {Append(t, c) : t \in {u \in shorter : Len(u) = n - 1},
                                          c \in ScanAlphabet}

Chars(word) ==
    CASE word = "order" -> <<"o", "r", "d", "e", "r">>
      [] word = "while_1" -> <<"w", "h", "i", "l", "e", "_", "1">>
      [] word = "while" -> <<"w", "h", "i", "l", "e">>
      [] word = "print" -> <<"p", "r", "i", "n", "t">>
      [] word = "ok" -> <<"o", "k">>
      [] word = "1.5" -> <<"1", ".", "5">>
      [] word = "12.50" -> <<"1", "2", ".", "5", "0">>
      [] word = "operators" ->
            <<"!", "=", "!", "=", "=", "=", "<", "=", "<", ">", "=", ">", "/", " ",
              "\t", "\r", "/", "/", "x", "\n", "(", ")", "{", "}", ",", "-", "+",
              ";", "*">>
      [] word = "lexical" -> <<"1", " ", "@">>
      [] word = "strings" -> <<"\"", "a", "\n", "b", "\"", "\n", "x", "\n">>
      [] word = "unterminated" -> <<"x", "\n", "\"", "c", "\n", "\n">>

ScanSources ==
    Texts(MaxSource)
    \cup {Chars(w) : w \in {"order", "ok", "while_1", "while", "print", "1.5", "12.50", "operators",
                            "lexical", "strings", "unterminated"}}

InitScan ==
    /\ program = <<>>
    /\ envs = << Interpreter_new_environment >>
    /\ environment = 1
    /\ globals = Interpreter_new_globals
    /\ stack = <<>>
    /\ \E source \in ScanSources : ctrl = [m |-> "scan", scanner |-> Scanner_new(source)]
    /\ output = <<>>
    /\ HAD_ERROR = FALSE

NextScan == scan_token \/ scan_tokens

SpecScan == InitScan /\ [][NextScan]_vars


(***************************************************************************)
(* Claims about the scanner.                                                *)
(***************************************************************************)
Newlines(source) == Cardinality({i \in 1..Len(source) : source[i] = "\n"})

\* C14: when lexing completes, the tokens hold exactly one Eof, it is the
\* last token, and its line is 1 plus the number of newlines of the source.
C14_EofLastWithLine ==
    ctrl.m = "scanned" =>
        LET ts == ctrl.tokens
        IN  /\ ts /= <<>>
            /\ \A i \in 1..Len(ts) : (ts[i].token_type = "Eof") = (i = Len(ts))
            /\ ts[Len(ts)].line = 1 + Newlines(ctrl.source)

\* a text with a newline inside a string and two outside it has been scanned
C14_Witness ==
    /\ ctrl.m = "scanned"
    /\ ctrl.source = Chars("strings")
    /\ Len(ctrl.tokens) = 3
    /\ ctrl.tokens[3] = Token("Eof", "", LNone, 4)


\* digits, a dot, digits
IsFraction(source) ==
    \E dot \in 2..(Len(source) - 1) :
        /\ source[dot] = "."
        /\ \A i \in (1..Len(source)) \ {dot} : is_digit(source[i])

\* digits and then a dot that no digit follows
IsDigitsDot(source) ==
    /\ Len(source) >= 2
    /\ source[Len(source)] = "."
    /\ \A i \in 1..(Len(source) - 1) : is_digit(source[i])

\* C15: digits, a dot and at least one digit are one Number token with the
\* whole text as lexeme; a dot that no digit follows is not part of the number.
C15_FractionIsOneNumber ==
    ctrl.m = "scanned" =>
        /\ IsFraction(ctrl.source) =>
              /\ Len(ctrl.tokens) = 2
              /\ ctrl.tokens[1].token_type = "Number"
              /\ ctrl.tokens[1].lexeme = Concat(ctrl.source)
        /\ IsDigitsDot(ctrl.source) =>
              /\ Len(ctrl.tokens) = 3
              /\ ctrl.tokens[1].token_type = "Number"
              /\ ctrl.tokens[1].lexeme
                    = Concat(SubSeq(ctrl.source, 1, Len(ctrl.source) - 1))
              /\ ctrl.tokens[2].token_type = "Dot"

\* a run of letters, digits and '_' that a letter or '_' starts
IsWord(source) ==
    /\ source /= <<>>
    /\ is_alpha(source[1])
    /\ \A i \in 1..Len(source) : is_alpha_numeric(source[i])

\* C16: a run of letters, digits and '_' that starts with a letter or '_' is
\* one token with the whole run as lexeme: the keyword when the run is a
\* reserved word, an Identifier otherwise.
C16_WordIsOneToken ==
    (ctrl.m = "scanned" /\ IsWord(ctrl.source)) =>
        LET text == Concat(ctrl.source)
        IN  ctrl.tokens
              = << Token(IF text \in DOMAIN Keywords THEN Keywords[text]
                         ELSE "Identifier", text, LNone, 1),
                   Token("Eof", "", LNone, 1) >>

\* the scanner is about to read a quote that no later quote closes
AtUnterminatedString ==
    /\ ctrl.m = "scan"
    /\ ~Scanner_is_at_end(ctrl.scanner)
    /\ ctrl.scanner.source[ctrl.scanner.current + 1] = "\""
    /\ \A i \in (ctrl.scanner.current + 2)..Len(ctrl.scanner.source) :
          ctrl.scanner.source[i] /= "\""

\* C17: a string that is never closed is reported as an unterminated string
\* at the line of its opening quote, and the run is marked as failed.
C17_UnterminatedStringReported ==
    [][AtUnterminatedString =>
          /\ HAD_ERROR'
          /\ output' = Append(output, ReportLine(ctrl.scanner.line, "",
                                                 "Unterminated string."))]_vars


(***************************************************************************)
(* Claims about the parser.                                                 *)
(***************************************************************************)
\* run is about to parse the tokens of the words `src`
Parsing(src) == ctrl.m = "run" /\ ctrl.tokens = ScanWords(src)

Node(op, l, r) ==
    IF op \in {"or", "and"} THEN Expr_Logical(l, ScanWord(op), r)
    ELSE Expr_Binary(l, ScanWord(op), r)

\* the tree of x op y op z that groups to the left
LeftTree(src) == Node(src[4], Node(src[2], V(src[1]), V(src[3])), V(src[5]))

\* C18: the binary operators group to the left and bind as their levels
\* say; `=` groups to the right.
C18_Associativity ==
    [][/\ \A src \in SameLevelSources :
            Parsing(src) => program' = << Do(LeftTree(src)) >>
       /\ Parsing(SrcPrecedence) =>
            program' = << Do(Node("+", Num(1), Node("*", Num(2), Num(3)))) >>
       /\ Parsing(SrcLevels) =>
            program' = << Do(Node("or", V("a"),
                             Node("and", V("b"),
                               Node("==", V("c"),
                                 Node("<", V("a"),
                                   Node("+", V("b"),
                                     Node("*", V("c"), V("a")))))))) >>
       /\ Parsing(SrcAssignChain) =>
            program' = << Do(Set("a", Set("b", V("c")))) >>]_vars

\* a - b - c; has been parsed to (a - b) - c
C18_Witness ==
    /\ ctrl.m = "interpret"
    /\ program = << Do(Bin(Bin(V("a"), "Minus", "-", V("b")), "Minus", "-", V("c"))) >>


\* C19: an assignment whose left-hand side is not a variable is reported as
\* "Invalid assignment target" at its `=`, the run is marked as errored, and
\* no Assign node is made of it.
C19_InvalidTargetReported ==
    [][Parsing(SrcBadTarget) =>
          /\ HAD_ERROR'
          /\ output' = Append(output, ErrorAtTokenLine(ScanWord("="),
                                                       "Invalid assignment target"))
          /\ program' = << Say(Str("ran")) >>]_vars


\* the statement that `for (init cond; incr) body` stands for
ForTree(init, cond, incr, body) ==
    LET stepped == IF incr = <<>> THEN body
                   ELSE Stmt_Block(<< body,
                            Do(Set("i", Bin(V("i"), "Plus", "+", Num(1)))) >>)
        loop == Stmt_While(IF cond = <<>> THEN True
                           ELSE Bin(V("i"), "Less", "<", Num(3)), stepped)
    IN  IF init = << ";" >> THEN loop
        ELSE IF Head(init) = "var" THEN Stmt_Block(<< VarS("i", Num(0)), loop >>)
        ELSE Stmt_Block(<< Do(Set("i", Num(0))), loop >>)

\* for (var i = 0; i < 3; i = i + 1) print i; print i;
ProgForCount ==
    << ForTree(<< "var", "i", "=", "0", ";" >>, << "i", "<", "3" >>,
               << "i", "=", "i", "+", "1" >>, Say(V("i"))),
       Say(V("i")) >>

C20_ForShape ==
    /\ \A init \in ForInits, cond \in ForConds, incr \in ForIncrs :
          Parsing(SrcForClauses(init, cond, incr)) =>
              program' = << ForTree(init, cond, incr, RetNothing) >>
    /\ Parsing(SrcForCount) => program' = ProgForCount

C20_ForRun ==
    program = ProgForCount =>
        /\ IsPrefix(output, <<"0", "1", "2">>)
        /\ ~Finished
        /\ ctrl.m = "panic" =>
              output = <<"0", "1", "2">> /\ ctrl = Panic("Undefined variable 'i'.")

\* C20: a for statement is the block of its initializer and a while loop
\* over the block of its body and its increment; a clause that is absent
\* leaves its block out, and an absent condition is `true`.  The counting
\* loop prints 0, 1, 2 and its variable is unknown after the loop.
C20_ForDesugaring == [][C20_ForShape]_vars /\ []C20_ForRun

\* the counting loop has printed 0, 1, 2 and the print after it failed
C20_Witness ==
    /\ program = ProgForCount
    /\ output = <<"0", "1", "2">>
    /\ ctrl = Panic("Undefined variable 'i'.")


\* C21: after a declaration or statement that failed, a `fun` or `class`
\* declaration included, the parser skips to the token after the next `;`
\* (or to the next keyword that starts a statement) and parses on from there.
C21_SynchronizeAfterFailure ==
    [][/\ Parsing(SrcBadVar) => program' = << Say(Str("ran")) >>
       /\ Parsing(SrcBadPrint) => program' = << Say(Str("ran")) >>
       /\ Parsing(SrcBadFun) => program' = << Say(Str("ran")) >>
       /\ Parsing(SrcBadClass) => program' = << Say(Str("ran")) >>]_vars


\* C22: a syntax error is reported and parsing goes on: parse returns a list
\* of statements for every token sequence that ends with Eof, and never ends
\* abruptly.
C22_ParseAlwaysReturns ==
    [][ctrl.m = "run" => ctrl'.m = "interpret" /\ ctrl'.statements = program']_vars


(***************************************************************************)
(* Claims about values: printing and equality.                              *)
(***************************************************************************)
\* C23: print writes Nil as nil, booleans as true and false, a string as its
\* text, a user function named f as <fn f> and a native function as
\* <native fn>.
C23_PrintedForms ==
    program = ProgPrintValues =>
        IsPrefix(output, <<"nil", "true", "false", "text", "<fn f>", "<native fn>">>)


\* the variant of the value of an operand
Variant(x) == IF x.k = "Variable" THEN "Callable" ELSE x.l.l

Truth(b) == IF b THEN "true" ELSE "false"

C24_Equality(x, y) ==
    /\ Len(output) >= 1 =>
          /\ output[1] \in {"true", "false"}
          /\ Variant(x) /= Variant(y) => output[1] = "false"
          /\ (Variant(x) = Variant(y) /\ Variant(x) \in {"None", "Boolean", "String"})
                => output[1] = Truth(x = y)
    /\ Len(output) >= 2 => output[2] = Truth(output[1] = "false")
    /\ Finished => Len(output) = 2

\* C24: for values a and b of every variant, a == b is true exactly when
\* a != b is false; values of different variants are unequal; Nil, booleans
\* and strings are equal exactly when their payloads are.
C24_EqualityRelation ==
    \A x, y \in EqualityOperands : program = ProgEquality(x, y) => C24_Equality(x, y)

\* both comparisons have been printed for two equal strings, for a string
\* and a number, and for a function and itself
C24_Witness ==
    /\ Finished
    /\ \/ program = ProgEquality(Str("a"), Str("a")) /\ output = <<"true", "false">>
       \/ program = ProgEquality(Str("a"), Num(1)) /\ output = <<"false", "true">>
       \/ program = ProgEquality(V("f"), V("f")) /\ Len(output) = 2


(***************************************************************************)
(* The resolver: src/src/resolver.rs.  `scopes` is the Vec of HashMaps      *)
(* (the last element is the innermost scope), `locals` the calls of         *)
(* interpreter.resolve(name, depth) in the order they are made.             *)
(***************************************************************************)
\* deepest scope stack handed to the resolver
MaxScopes == 2

Resolver_new(scopes) == [scopes |-> scopes, locals |-> <<>>, panic |-> FALSE]

Resolver_begin_scope(rs) == [rs EXCEPT !.scopes = Append(@, << >>)]

Resolver_end_scope(rs) ==
    [rs EXCEPT !.scopes = SubSeq(@, 1, Len(@) - 1)]

Resolver_insert(rs, name, defined) ==
    IF rs.scopes = <<>> THEN rs
    ELSE [rs EXCEPT !.scopes[Len(rs.scopes)] = (name.lexeme :> defined) @@ @]

Resolver_declare(rs, name) == Resolver_insert(rs, name, FALSE)

Resolver_define(rs, name) == Resolver_insert(rs, name, TRUE)

\* the index i runs from scopes.len() down to 0; scopes.get(i) is None for
\* i = scopes.len() and its unwrap panics
RECURSIVE Resolver_resolve_local_loop(_, _, _)
Resolver_resolve_local_loop(rs, name, i) ==
    IF i < 0 THEN rs
    ELSE IF i >= Len(rs.scopes) THEN [rs EXCEPT !.panic = TRUE]
    ELSE Resolver_resolve_local_loop(
            IF name.lexeme \in DOMAIN rs.scopes[i + 1]
            THEN [rs EXCEPT !.locals = Append(@, <<name, Len(rs.scopes) - 1 - i>>)]
            ELSE rs,
            name, i - 1)

Resolver_resolve_local(rs, name) == Resolver_resolve_local_loop(rs, name, Len(rs.scopes))

\* the value built by `Error("")` is dropped: nothing is reported
Resolver_visit_var_expr(rs, t) == Resolver_resolve_local(rs, t)

RECURSIVE Resolver_accept(_, _)
RECURSIVE Resolver_resolve_all(_, _)
RECURSIVE Resolver_declare_params(_, _)

\* resolve_stmts, and the loop over the arguments of a call
Resolver_resolve_all(rs, nodes) ==
    IF rs.panic \/ nodes = <<>> THEN rs
    ELSE Resolver_resolve_all(Resolver_accept(rs, Head(nodes)), Tail(nodes))

Resolver_declare_params(rs, params) ==
    IF params = <<>> THEN rs
    ELSE Resolver_declare_params(
            Resolver_define(Resolver_declare(rs, Head(params)), Head(params)),
            Tail(params))

Resolver_after(rs, next) == IF rs.panic THEN rs ELSE next

\* resolve_stmt and resolve_expr: accept calls the visitor method of the node
Resolver_accept(rs, node) ==
    CASE node.k = "Block" ->
            LET inner == Resolver_resolve_all(Resolver_begin_scope(rs), node.stmts)
            IN  Resolver_after(inner, Resolver_end_scope(inner))
      [] node.k = "Var" ->
            LET declared == Resolver_declare(rs, node.name)
                resolved == IF node.init.some THEN Resolver_accept(declared, node.init.x)
                            ELSE declared
            IN  Resolver_after(resolved, Resolver_define(resolved, node.name))
      [] node.k = "Function" ->
            LET inner == Resolver_resolve_all(
                            Resolver_declare_params(
                                Resolver_begin_scope(
                                    Resolver_define(Resolver_declare(rs, node.name),
                                                    node.name)),
                                node.params),
                            node.body)
            IN  Resolver_after(inner, Resolver_end_scope(inner))
      [] node.k \in {"Expression", "Print"} -> Resolver_accept(rs, node.e)
      [] node.k = "If" ->
            Resolver_resolve_all(rs, << node.c, node.th >>
                                     \o (IF node.el.some THEN << node.el.x >> ELSE <<>>))
      [] node.k = "Return" ->
            IF node.value.some THEN Resolver_accept(rs, node.value.x) ELSE rs
      [] node.k = "While" -> Resolver_resolve_all(rs, << node.c, node.body >>)
      [] node.k = "Variable" -> Resolver_visit_var_expr(rs, node.name)
      [] node.k = "Assign" ->
            LET value == Resolver_accept(rs, node.value)
            IN  Resolver_after(value, Resolver_resolve_local(value, node.name))
      [] node.k \in {"Binary", "Logical"} -> Resolver_resolve_all(rs, << node.l, node.r >>)
      [] node.k = "Call" -> Resolver_resolve_all(rs, << node.callee >> \o node.args)
      [] node.k = "Grouping" -> Resolver_accept(rs, node.e)
      [] node.k = "Literal" -> rs
      [] node.k = "Unary" -> Resolver_accept(rs, node.r)

IsStmt(node) ==
    node.k \in {"Block", "Var", "Function", "Expression", "Print", "If", "Return", "While"}

Resolved(rs) ==
    IF rs.panic THEN Panic("resolver")
    ELSE [m |-> "resolved", scopes |-> rs.scopes, locals |-> rs.locals]

resolve_stmt ==
    /\ ctrl.m = "resolve"
    /\ IsStmt(ctrl.node)
    /\ \E rs \in {Resolver_accept(Resolver_new(ctrl.scopes), ctrl.node)} :
          ctrl' = Resolved(rs)
    /\ UNCHANGED <<program, envs, environment, globals, stack, output, HAD_ERROR>>

resolve_expr ==
    /\ ctrl.m = "resolve"
    /\ ~IsStmt(ctrl.node)
    /\ \E rs \in {Resolver_accept(Resolver_new(ctrl.scopes), ctrl.node)} :
          ctrl' = Resolved(rs)
    /\ UNCHANGED <<program, envs, environment, globals, stack, output, HAD_ERROR>>

\* the names of the scopes, and the scopes: a name is absent, declared or
\* defined
ScopeNames == {"a", "b"}
Scopes ==
    UNION { [names -> BOOLEAN] : names \in SUBSET ScopeNames }

RECURSIVE ScopeStacks(_)
ScopeStacks(n) ==
    IF n = 0 THEN { <<>> }
    ELSE LET shorter == ScopeStacks(n - 1)
         IN  shorter \cup {Append(st, sc) : st \in {u \in shorter : Len(u) = n - 1},
                                            sc \in Scopes}

\* a name is declared and not yet defined only in the innermost scope,
\* while its initializer is resolved
WellFormedScopes(scopes) ==
    \A i \in 1..(Len(scopes) - 1) : \A n \in DOMAIN scopes[i] : scopes[i][n]

ResolveNodes ==
    { V("a"), V("b"), Set("a", Num(1)), Set("b", V("a")), Num(1),
      Bin(Num(1), "Plus", "+", Num(2)),
      VarS("a", Num(1)), VarS("a", V("a")), Stmt_Var(Ident("b"), NoneOpt),
      Say(V("a")), Say(Num(1)),
      Stmt_Block(<< VarS("a", Num(1)), Say(Num(1)) >>),
      Fun("f", <<"a">>, << Ret(Num(1)) >>) }

InitResolve ==
    /\ program = <<>>
    /\ envs = << Interpreter_new_environment >>
    /\ environment = 1
    /\ globals = Interpreter_new_globals
    /\ stack = <<>>
    /\ \E scopes \in {st \in ScopeStacks(MaxScopes) : WellFormedScopes(st)},
          node \in ResolveNodes :
          ctrl = [m |-> "resolve", scopes |-> scopes, node |-> node]
    /\ output = <<>>
    /\ HAD_ERROR = FALSE

NextResolve == resolve_stmt \/ resolve_expr

SpecResolve == InitResolve /\ [][NextResolve]_vars

(***************************************************************************)
(* Claims about the resolver.                                               *)
(***************************************************************************)
\* the scopes, from the innermost outwards, that hold the name
Holders(scopes, lexeme) ==
    {d \in 0..(Len(scopes) - 1) : lexeme \in DOMAIN scopes[Len(scopes) - d]}

Innermost(S) == CHOOSE d \in S : \A e \in S : d <= e

\* what the resolver does with a use of a variable or an assignment to it
C25_ResolveStep ==
    (/\ ctrl.m = "resolve"
     /\ ctrl.node \in {V("a"), V("b"), Set("a", Num(1))}) =>
        LET name == ctrl.node.name
            holders == Holders(ctrl.scopes, name.lexeme)
            own == /\ ctrl.node.k = "Variable"
                   /\ ctrl.scopes /= <<>>
                   /\ name.lexeme \in DOMAIN ctrl.scopes[Len(ctrl.scopes)]
                   /\ ~ctrl.scopes[Len(ctrl.scopes)][name.lexeme]
        IN  /\ ctrl'.m = "resolved"
            /\ ctrl'.locals = IF holders = {} THEN <<>>
                              ELSE << <<name, Innermost(holders)>> >>
            /\ own => output' = Append(output,
                        ErrorAtTokenLine(name,
                            "Can't read local variable in its own initializer."))

\* C25: for a use of a variable, or an assignment of a literal to it, the
\* resolver records the depth of the innermost scope that holds the name,
\* counting from 0, and nothing when no scope holds it; a use of a name that
\* the innermost scope holds as declared and not defined is reported.
C25_ResolveInnermost == [][C25_ResolveStep]_vars


(***************************************************************************)
(* Claims about the top level of a program.                                 *)
(***************************************************************************)
\* C26: a return executed outside every function is no error and does not
\* stop the program: interpret drops the signal and executes the statements
\* that follow.
C26_TopLevelReturn ==
    program = ProgTopReturn =>
        /\ IsPrefix(output, <<"1", "3">>)
        /\ ~HAD_ERROR
        /\ ctrl.m /= "panic"
        /\ Finished => output = <<"1", "3">>

\* the program has run to its end, past both returns
C26_Witness == program = ProgTopReturn /\ Finished /\ output = <<"1", "3">>


(***************************************************************************)
(* Parser::parse, one declaration at a time, on every short token           *)
(* sequence and on the sources of the driver.                               *)
(***************************************************************************)
\* most tokens before the Eof of a drawn token sequence
MaxTokens == 2

ParseWords ==
    {"print", ";", "(", ")", "{", "}", "a", "=", "fun", "var", ",", "return"}

RECURSIVE WordLists(_)
WordLists(n) ==
    IF n = 0 THEN { <<>> }
    ELSE LET shorter == WordLists(n - 1)
         IN  shorter \cup {Append(ws, w) : ws \in {u \in shorter : Len(u) = n - 1},
                                           w \in ParseWords}

\* the drawn sequences open at most two groupings inside one another;
\* deeper ones take the same path through primary once more
ShallowWordLists ==
    {ws \in WordLists(MaxTokens) :
        ~\E i, j, k \in DOMAIN ws :
            i < j /\ j < k /\ ws[i] = "(" /\ ws[j] = "(" /\ ws[k] = "("}

\* one turn of the loop of parse
parse_declaration ==
    /\ ctrl.m = "parse"
    /\ ~ctrl.ps.panic
    /\ ~Parser_is_at_end(ctrl.tokens, ctrl.ps)
    /\ \E dec \in {Parser_self("declaration", ctrl.tokens, ctrl.ps)} :
          ctrl' = [ctrl EXCEPT !.ps = dec.ps,
                               !.statements = IF dec.ok THEN Append(@, dec.node) ELSE @]
    /\ UNCHANGED <<program, envs, environment, globals, stack, output, HAD_ERROR>>

\* the end of parse: the statements are returned
parse ==
    /\ ctrl.m = "parse"
    /\ ~ctrl.ps.panic
    /\ Parser_is_at_end(ctrl.tokens, ctrl.ps)
    /\ ctrl' = [m |-> "parsed", tokens |-> ctrl.tokens, statements |-> ctrl.statements,
                ps |-> ctrl.ps]
    /\ UNCHANGED <<program, envs, environment, globals, stack, output, HAD_ERROR>>

InitParse ==
    /\ program = <<>>
    /\ envs = << Interpreter_new_environment >>
    /\ environment = 1
    /\ globals = Interpreter_new_globals
    /\ stack = <<>>
    /\ \E words \in ShallowWordLists \cup Sources :
          ctrl = [m |-> "parse", tokens |-> ScanWords(words), statements |-> <<>>,
                  ps |-> ParserState(0)]
    /\ output = <<>>
    /\ HAD_ERROR = FALSE

NextParse == parse_declaration \/ parse

SpecParse == InitParse /\ [][NextParse]_vars

\* C27: while a token sequence that ends with Eof is parsed, the cursor is
\* never past the Eof token, and previous is not evaluated at cursor 0 (the
\* only panic that leaves the cursor at 0): every token access is in bounds.
C27_CursorInBounds ==
    ctrl.m \in {"parse", "parsed"} =>
        /\ ctrl.ps.current \in 0..(Len(ctrl.tokens) - 1)
        /\ ~(ctrl.ps.panic /\ ctrl.ps.current = 0)
        /\ ctrl.m = "parsed" => ctrl.tokens[ctrl.ps.current + 1].token_type = "Eof"

\* `print` and nothing else: the error is at Eof, synchronize has called
\* advance there, and parse has returned with the cursor on the Eof token
C27_Witness ==
    /\ ctrl.m = "parsed"
    /\ ctrl.tokens = ScanWords(<< "print" >>)
    /\ ctrl.ps.current = 1
    /\ ctrl.ps.reports /= <<>>


(***************************************************************************)
(* Claims about the chains of environments.                                 *)
(***************************************************************************)
\* every environment encloses an older one or none, so that every chain
\* ends; every closure holds the handle of an environment that exists
C28_ChainsEnd ==
    /\ \A k \in 1..Len(envs) : envs[k].enclosing \in 0..(k - 1)
    /\ \A k \in 1..Len(envs) : Len(Chain(envs, k)) <= k
    /\ \A k \in 1..Len(envs) : \A n \in DOMAIN envs[k].values :
          LET v == envs[k].values[n]
          IN  (v.t = "Callable" /\ v.f.kind = "User") => v.f.enclosing \in 1..Len(envs)

\* no step removes an environment or changes what it encloses
C28_EnclosingKept ==
    /\ Len(envs') >= Len(envs)
    /\ \A k \in 1..Len(envs) : envs'[k].enclosing = envs[k].enclosing

\* C28: the chain of enclosing environments of every environment is finite
\* and acyclic: a new environment points to one that exists already and
\* `enclosing` is never reassigned, so get and assign end on every chain,
\* also on the chain of a closure that is stored in the environment it
\* captured.
C28_ChainsAcyclic == []C28_ChainsEnd /\ [][C28_EnclosingKept]_vars

\* fib is stored in the global environment, which it captured, and a call
\* of it inside a call of it looks names up through a chain of environments
C28_Witness ==
    /\ program = ProgFib
    /\ "fib" \in DOMAIN envs[1].values
    /\ envs[1].values["fib"].f.enclosing = 1
    /\ Len(Chain(envs, environment)) >= 2
    /\ ExprIs("Variable")

====
